---- MODULE Spec2Model ----
(***************************************************************************)
(* Nubimed -> GoHighLevel webhook adapter.                                 *)
(*                                                                         *)
(* State machine of the two request handlers (POST /webhook/nubimed and    *)
(* POST /webhook/nubimed/deleted), of the calendar service they call and   *)
(* of the CRM contact record that holds the correlation table as two       *)
(* comma-separated strings.  Every await on a remote call is one step; the *)
(* remote answer is chosen nondeterministically.                           *)
(*                                                                         *)
(* JavaScript values: strings are TLA+ strings, and the empty string       *)
(* stands for every falsy value (undefined, null, '') wherever the code    *)
(* only tests truthiness.                                                  *)
(***************************************************************************)
EXTENDS Integers, Sequences, FiniteSets, TLC

(***************************************************************************)
(* Bounds                                                                  *)
(***************************************************************************)
\* number of request slots (requests whose handling may be in progress)
NumProcs == 2
\* number of calendar events the CRM can create before every create fails
MaxAppts == 2

Procs == 1..NumProcs

\* the slot that handles the requests when they are handled one at a time
FirstProc == CHOOSE q \in Procs : \A r \in Procs : q <= r

(***************************************************************************)
(* String helpers (JavaScript String methods)                              *)
(***************************************************************************)
Char(s, i) == SubSeq(s, i, i)

\* String.prototype.includes
Includes(s, t) ==
  \E i \in 1..(Len(s) + 1) :
     i + Len(t) - 1 <= Len(s) /\ SubSeq(s, i, i + Len(t) - 1) = t

RECURSIVE TrimLeft(_)
TrimLeft(s) ==
  IF Len(s) > 0 /\ Char(s, 1) = " " THEN TrimLeft(SubSeq(s, 2, Len(s))) ELSE s

RECURSIVE TrimRight(_)
TrimRight(s) ==
  IF Len(s) > 0 /\ Char(s, Len(s)) = " "
  THEN TrimRight(SubSeq(s, 1, Len(s) - 1)) ELSE s

\* String.prototype.trim
Trim(s) == TrimRight(TrimLeft(s))

\* index of the first ',' of s, 0 when there is none
FirstComma(s) ==
  IF \E i \in 1..Len(s) : Char(s, i) = ","
  THEN CHOOSE i \in 1..Len(s) :
         /\ Char(s, i) = ","
         /\ \A j \in 1..(i - 1) : Char(s, j) # ","
  ELSE 0

\* String.prototype.split(',')
RECURSIVE SplitComma(_)
SplitComma(s) ==
  LET i == FirstComma(s) IN
  IF i = 0 THEN << s >>
  ELSE << SubSeq(s, 1, i - 1) >> \o SplitComma(SubSeq(s, i + 1, Len(s)))

\* Array.prototype.join(',')
RECURSIVE JoinComma(_)
JoinComma(ids) ==
  IF Len(ids) = 0 THEN ""
  ELSE IF Len(ids) = 1 THEN ids[1]
  ELSE ids[1] \o "," \o JoinComma(Tail(ids))

\* Array.prototype.map(id => id.trim())
MapTrim(ids) == [i \in 1..Len(ids) |-> Trim(ids[i])]

\* Array.prototype.filter(id => id.length > 0)
RECURSIVE FilterNonEmpty(_)
FilterNonEmpty(ids) ==
  IF Len(ids) = 0 THEN << >>
  ELSE IF Len(ids[1]) > 0 THEN << ids[1] >> \o FilterNonEmpty(Tail(ids))
  ELSE FilterNonEmpty(Tail(ids))

\* Array.prototype.filter(id => id && id.trim().length > 0)
RECURSIVE FilterNonBlank(_)
FilterNonBlank(ids) ==
  IF Len(ids) = 0 THEN << >>
  ELSE IF Len(Trim(ids[1])) > 0 THEN << ids[1] >> \o FilterNonBlank(Tail(ids))
  ELSE FilterNonBlank(Tail(ids))

\* Array.prototype.indexOf, 1-based; 0 stands for -1
IndexOf(ids, id) ==
  IF \E i \in 1..Len(ids) : ids[i] = id
  THEN CHOOSE i \in 1..Len(ids) :
         /\ ids[i] = id
         /\ \A j \in 1..(i - 1) : ids[j] # id
  ELSE 0

\* Array.prototype.splice(index, 1), 1-based
Splice(ids, index) ==
  SubSeq(ids, 1, index - 1) \o SubSeq(ids, index + 1, Len(ids))

(***************************************************************************)
(* JSON.parse of a custom-field value, as far as parseCommaSeparatedIds    *)
(* looks at it: the value is a legacy JSON array exactly when it is a      *)
(* bracketed list of double-quoted strings.                                *)
(***************************************************************************)
Quote == "\""

IsQuoted(e) ==
  /\ Len(e) >= 2
  /\ Char(e, 1) = Quote
  /\ Char(e, Len(e)) = Quote
  /\ ~ Includes(SubSeq(e, 2, Len(e) - 1), Quote)

Unquote(e) == SubSeq(e, 2, Len(e) - 1)

JsonInner(value) == SubSeq(Trim(value), 2, Len(Trim(value)) - 1)

JsonElems(value) == MapTrim(SplitComma(JsonInner(value)))

IsJsonArray(value) ==
  /\ Len(Trim(value)) >= 2
  /\ Char(Trim(value), 1) = "["
  /\ Char(Trim(value), Len(Trim(value))) = "]"
  /\ \/ Trim(JsonInner(value)) = ""
     \/ \A i \in 1..Len(JsonElems(value)) : IsQuoted(JsonElems(value)[i])

JsonArray(value) ==
  IF Trim(JsonInner(value)) = "" THEN << >>
  ELSE [i \in 1..Len(JsonElems(value)) |-> Unquote(JsonElems(value)[i])]

(***************************************************************************)
(* calendar-service.js: the two serialisation functions                    *)
(***************************************************************************)
parseCommaSeparatedIds(value) ==
  IF value = "" THEN << >>
  ELSE IF IsJsonArray(value) THEN JsonArray(value)
  ELSE FilterNonEmpty(MapTrim(SplitComma(value)))

formatCommaSeparatedIds(ids) ==
  IF Len(ids) = 0 THEN "" ELSE JoinComma(FilterNonBlank(ids))

(***************************************************************************)
(* JavaScript values whose type matters (event name, status)               *)
(***************************************************************************)
Undef == [t |-> "undefined", v |-> ""]
Str(s) == [t |-> "string", v |-> s]
\* a number, written by its decimal digits
Num(s) == [t |-> "number", v |-> s]

\* ToBoolean
Truthy(x) ==
  /\ x.t # "undefined"
  /\ x.v # ""
  /\ ~ (x.t = "number" /\ x.v = "0")

\* a || b on typed values
Or(a, b) == IF Truthy(a) THEN a ELSE b

\* a || b on strings ('' stands for undefined)
OrS(a, b) == IF a # "" THEN a ELSE b

UpperChars == "ABCDEFGHIJKLMNOPQRSTUVWXYZ"
LowerChars == "abcdefghijklmnopqrstuvwxyz"

LowerChar(c) ==
  IF \E i \in 1..26 : Char(UpperChars, i) = c
  THEN Char(LowerChars, CHOOSE i \in 1..26 : Char(UpperChars, i) = c)
  ELSE c

\* String.prototype.toLowerCase
RECURSIVE ToLower(_)
ToLower(s) ==
  IF Len(s) = 0 THEN ""
  ELSE LowerChar(Char(s, 1)) \o ToLower(SubSeq(s, 2, Len(s)))

(***************************************************************************)
(* Payloads.  A payload is the parsed body: its top-level fields, its      *)
(* data field (absent, a raw string or an object), the booking object      *)
(* nested in data (or at top level when there is no data object), and the  *)
(* places a patient can be found.  Fields the enumerated payloads never    *)
(* carry (appointment, startAt, datetime, previous_*, changes, event_type, *)
(* ...) read as undefined.                                                 *)
(***************************************************************************)
NoObj ==
  [ id |-> "", booking_id |-> "", deleted_booking_id |-> "", start_at |-> "",
    date |-> "", status |-> Undef, name |-> Undef, phone |-> "", email |-> "",
    contact_id |-> "" ]

NoPatient == [t |-> "undefined", phone |-> "", email |-> "", name |-> "", surname |-> ""]

NoPayload ==
  [ top |-> NoObj, dataT |-> "undefined", dataS |-> "", data |-> NoObj,
    bookingT |-> "undefined", booking |-> NoObj,
    patients |-> << >>, dpatients |-> << >>,
    bpatient |-> NoPatient, ppatient |-> NoPatient ]

\* const data = payload.data || payload
DataOf(p) ==
  IF p.dataT = "object" THEN p.data
  ELSE IF p.dataT = "string" /\ p.dataS # "" THEN NoObj
  ELSE p.top

\* data.booking is read from the data object, or from the payload itself
HasBooking(p) ==
  /\ p.bookingT = "object"
  /\ ~ (p.dataT = "string" /\ p.dataS # "")

\* const booking = data.booking || payload.appointment || payload
BookingOf(p) == IF HasBooking(p) THEN p.booking ELSE p.top

\* booking.patients
BookingPatients(p) ==
  IF HasBooking(p) THEN p.patients
  ELSE IF p.dataT = "undefined" THEN p.dpatients ELSE << >>

\* data.patients
DataPatients(p) ==
  IF p.dataT = "string" /\ p.dataS # "" THEN << >> ELSE p.dpatients

\* booking.patient
BookingPatient(p) == IF HasBooking(p) THEN p.bpatient ELSE p.ppatient

(***************************************************************************)
(* Dates: new Date(x) is valid exactly for the strings of ValidDates.      *)
(***************************************************************************)
ValidDate == "2025-01-10T09:00:00Z"
BadDate == "not-a-date"
ValidDates == { ValidDate }

\* formatDateForGHL (both services): null ('') for a missing or invalid date
formatDateForGHL(date) ==
  IF date = "" THEN ""
  ELSE IF date \notin ValidDates THEN ""
  ELSE "2025-01-10T09:00:00.000Z"

(***************************************************************************)
(* utils/filter.js                                                         *)
(***************************************************************************)
\* mutant: the deletion notice is missing from the list
nonBookingEventsShort ==
  { "cita_completada", "booking_completed", "booking_deleted",
    "nueva_factura", "new_invoice", "tratamiento_completado",
    "treatment_completed", "paciente_creado_actualizado",
    "patient_created_updated", "new_or_updated_patient",
    "presupuesto_creado_actualizado", "budget_created_updated" }

nonBookingEvents ==
  { "cita_completada", "cita_eliminada", "booking_completed", "booking_deleted",
    "nueva_factura", "new_invoice", "tratamiento_completado",
    "treatment_completed", "paciente_creado_actualizado",
    "patient_created_updated", "new_or_updated_patient",
    "presupuesto_creado_actualizado", "budget_created_updated" }

completionStatuses ==
  { "asiste", "completada", "completed", "attended", "asistida", "finalizada" }

isCompletionStatus(status) ==
  /\ Truthy(status)
  /\ \E c \in completionStatuses : Includes(ToLower(status.v), c)

\* the list of completion codes is empty
completionCodes == { }

isCompletionStatusCode(statusCode) ==
  /\ statusCode.t = "number"
  /\ statusCode.v \in completionCodes

\* payload.name || booking.name || data.name || event_type || event || action
FilterEventName(p) ==
  Or(p.top.name, Or(BookingOf(p).name, Or(DataOf(p).name, Undef)))

\* booking.status !== undefined ? booking.status : (payload.status || data.status)
FilterStatus(p) ==
  IF BookingOf(p).status.t # "undefined" THEN BookingOf(p).status
  ELSE Or(p.top.status, DataOf(p).status)

\* booking && (booking.id || booking.start_at || booking.startAt || booking.date)
FilterHasBookingData(p) ==
  BookingOf(p).id # "" \/ BookingOf(p).start_at # "" \/ BookingOf(p).date # ""


\* mutant: a completion status is looked at before the new_booking pattern
FilterNameRulesStatusFirst(p, eventLower, status) ==
  LET startAtNew == OrS(BookingOf(p).start_at, DataOf(p).start_at)
      completion == isCompletionStatus(status) \/ isCompletionStatusCode(status)
  IN
  IF completion THEN "reject"
  ELSE IF Includes(eventLower, "new_booking") THEN "accept"
  ELSE IF Includes(eventLower, "new_or_updated") /\ startAtNew # "" THEN "accept"
  ELSE IF Includes(eventLower, "booking_created") \/ Includes(eventLower, "created")
       THEN "accept"
  ELSE "none"

\* lines 53-109: the decision of the name-pattern rules, "none" when no rule decides
FilterNameRules(p, eventLower, status) ==
  LET startAtNew == OrS(BookingOf(p).start_at, DataOf(p).start_at)
      completion == isCompletionStatus(status) \/ isCompletionStatusCode(status)
  IN
  IF Includes(eventLower, "new_booking") THEN "accept"
  ELSE IF Includes(eventLower, "new_or_updated") /\ startAtNew # "" THEN "accept"
  ELSE IF Includes(eventLower, "new_or_updated") /\ isCompletionStatusCode(status)
       THEN "reject"
  ELSE IF Includes(eventLower, "booking_created") \/ Includes(eventLower, "created")
       THEN "accept"
  ELSE IF /\ Includes(eventLower, "attended") \/ Includes(eventLower, "asiste")
          /\ ~ Includes(eventLower, "new")
          /\ completion
       THEN "reject"
  ELSE IF /\ Includes(eventLower, "completed")
          /\ ~ Includes(eventLower, "new")
          /\ ~ Includes(eventLower, "booking_created")
          /\ completion
       THEN "reject"
  \* previous_start_at is undefined in every payload: the date-change accept is not taken
  ELSE IF /\ Includes(eventLower, "updated") \/ Includes(eventLower, "modified")
          /\ completion
       THEN "reject"
  ELSE "none"

\* mutant: code 5 is accepted without a start time
FilterStatusRulesLax(p, status) ==
  IF status.t # "number" THEN "none"
  ELSE IF status.v = "5" \/ status.v = "4" THEN "accept"
  ELSE "none"

\* lines 111-143: the decision of the numeric status rules
FilterStatusRules(p, status) ==
  LET startAt == OrS(BookingOf(p).start_at, DataOf(p).start_at) IN
  IF status.t # "number" THEN "none"
  ELSE IF status.v = "5" THEN (IF startAt # "" THEN "accept" ELSE "reject")
  ELSE IF status.v = "4" THEN "accept"
  ELSE IF isCompletionStatusCode(status) THEN
         (IF startAt # "" THEN "accept" ELSE "reject")
  ELSE "none"

\* lines 192-193: eventName.toLowerCase is not a function when the resolved
\* name is truthy and not a string and no earlier rule has returned
FilterThrows(p) ==
  LET eventName == FilterEventName(p) IN
  /\ Truthy(eventName)
  /\ eventName.t # "string"
  /\ FilterStatusRules(p, FilterStatus(p)) = "none"
  /\ BookingOf(p).start_at # "" \/ BookingOf(p).date # ""

shouldProcessWebhook(p) ==
  LET eventName == FilterEventName(p)
      named == Truthy(eventName) /\ eventName.t = "string"
      eventLower == IF named THEN ToLower(eventName.v) ELSE ""
      status == FilterStatus(p)
      byName == IF named THEN FilterNameRules(p, eventLower, status) ELSE "none"
      byStatus == FilterStatusRules(p, status)
  IN
  IF named /\ \E e \in nonBookingEvents : Includes(eventLower, e) THEN FALSE
  ELSE IF /\ named
          /\ Includes(eventLower, "patient")
          /\ ~ Includes(eventLower, "booking")
          /\ ~ FilterHasBookingData(p)
       THEN FALSE
  ELSE IF byName # "none" THEN byName = "accept"
  ELSE IF byStatus # "none" THEN byStatus = "accept"
  \* event_type, event and action are undefined: lines 145-190 decide nothing
  ELSE IF BookingOf(p).start_at # "" \/ BookingOf(p).date # "" THEN TRUE
  ELSE IF ~ FilterHasBookingData(p) THEN FALSE
  ELSE TRUE

(***************************************************************************)
(* services/ghl-service.js                                                 *)
(***************************************************************************)
Digits == "0123456789"

IsPhoneChar(c) == c = "+" \/ \E i \in 1..10 : Char(Digits, i) = c

\* String(phone).replace(/[^\d+]/g, '')
RECURSIVE CleanPhone(_)
CleanPhone(s) ==
  IF Len(s) = 0 THEN ""
  ELSE IF IsPhoneChar(Char(s, 1))
       THEN Char(s, 1) \o CleanPhone(SubSeq(s, 2, Len(s)))
  ELSE CleanPhone(SubSeq(s, 2, Len(s)))

formatPhone(phone) ==
  IF phone = "" THEN ""
  ELSE IF CleanPhone(phone) # "" /\ Char(CleanPhone(phone), 1) # "+"
       THEN "+" \o CleanPhone(phone)
  ELSE CleanPhone(phone)

\* the patient source selected by extractPatientData
SelectedPatient(p) ==
  IF Len(BookingPatients(p)) > 0 THEN BookingPatients(p)[1]
  ELSE IF Len(DataPatients(p)) > 0 THEN DataPatients(p)[1]
  ELSE IF BookingPatient(p).t = "object" THEN BookingPatient(p)
  ELSE IF p.ppatient.t = "object" THEN p.ppatient
  ELSE NoPatient

extractPatientData(p) ==
  LET patient == SelectedPatient(p)
      booking == BookingOf(p)
      data == DataOf(p)
  IN
  [ phone |-> formatPhone(OrS(patient.phone, OrS(p.top.phone,
                              OrS(booking.phone, data.phone)))),
    email |-> OrS(patient.email, OrS(p.top.email, OrS(booking.email, data.email))),
    firstName |-> OrS(patient.name,
                      IF Truthy(p.top.name) THEN p.top.name.v ELSE ""),
    lastName |-> patient.surname,
    appointmentDate |-> formatDateForGHL(
        OrS(booking.start_at, OrS(data.start_at, OrS(booking.date,
            OrS(p.top.date, data.date))))) ]

\* mutant: the contact is upserted without an appointment date
SyncToGHLPrecheckNoDate(p, env) ==
  IF ~ env.token THEN "GHL_API_TOKEN environment variable is required"
  ELSE IF ~ env.location THEN "GHL_LOCATION_ID environment variable is required"
  ELSE IF extractPatientData(p).phone = "" /\ extractPatientData(p).email = ""
       THEN "Phone or email is required to sync contact"
  ELSE "fetch"

\* what syncToGHL does before its upsert request: the error it throws, or "fetch"
SyncToGHLPrecheck(p, env) ==
  IF ~ env.token THEN "GHL_API_TOKEN environment variable is required"
  ELSE IF ~ env.location THEN "GHL_LOCATION_ID environment variable is required"
  ELSE IF extractPatientData(p).phone = "" /\ extractPatientData(p).email = ""
       THEN "Phone or email is required to sync contact"
  ELSE IF extractPatientData(p).appointmentDate = ""
       THEN "Appointment date is required"
  ELSE "fetch"

(***************************************************************************)
(* services/calendar-service.js                                            *)
(***************************************************************************)
extractAppointmentData(p) ==
  LET booking == BookingOf(p)
      data == DataOf(p)
  IN
  [ nubimedBookingId |-> OrS(booking.id, OrS(data.booking_id, p.top.booking_id)),
    startAt |-> OrS(booking.start_at, OrS(data.start_at, booking.date)),
    endAt |-> "" ]

\* what createOrUpdateAppointment does before its first request: the error it
\* throws, or "fetch"
AppointmentPrecheck(p, contactId, env) ==
  IF ~ env.token THEN "GHL_API_TOKEN environment variable is required"
  ELSE IF ~ env.location THEN "GHL_LOCATION_ID environment variable is required"
  ELSE IF contactId = "" THEN "Contact ID is required to create appointment"
  ELSE IF extractAppointmentData(p).startAt = ""
       THEN "Appointment start time is required"
  ELSE IF formatDateForGHL(extractAppointmentData(p).startAt) = ""
       THEN "Invalid appointment date format"
  ELSE "fetch"

(***************************************************************************)
(* Inputs                                                                  *)
(***************************************************************************)
\* the one CRM contact the requests are about
ContactId == "C1"

\* booking ids the source system sends, after String(): plain ids and an id
\* that holds the list separator
BookingIdInputs == { "b1", "b2", "b1,b2" }

\* the id the CRM gives to the n-th calendar event it creates
ApptId(n) == "x" \o Char(Digits, n + 1)

\* an id the CRM may answer an update with instead of the id it was sent
OtherApptId == "u9"

\* answers of the CRM to one request: 2xx with a JSON body, a non-2xx status
\* with a JSON body, 404, a non-2xx status with a body that is not JSON, a
\* rejected fetch
Outcomes == { "ok", "http_error", "not_found", "bad_json", "network" }

(***************************************************************************)
(* State                                                                   *)
(***************************************************************************)
VARIABLES
  env,        \* process.env: whether GHL_API_TOKEN and GHL_LOCATION_ID are set
  fields,     \* the contact's two correlation custom fields, as stored by the CRM
  events,     \* ids of the calendar events that exist in the CRM
  nextAppt,   \* number of calendar events the CRM has created so far
  pairs,      \* history: the (bookingId, appointmentId) pairs written and not removed
  pc,         \* per request slot: the await the handler is suspended at
  req,        \* per request slot: the request being handled
  loc,        \* per request slot: the handler's local variables
  calls,      \* per request slot: the remote calls issued so far, with their answers
  resp        \* per request slot: the HTTP response sent (code 0: none yet)

vars == << env, fields, events, nextAppt, pairs, pc, req, loc, calls, resp >>

\* a request: its route, its content type, how the body reached the handler
\* (bodyT: a parsed value, a raw buffer or a string), whether that text parses
\* as JSON, the type of the value it denotes, whether a form-encoded data
\* field is JSON text, and the value itself
NoReq == [ kind |-> "none", ct |-> "", bodyT |-> "", textOk |-> FALSE,
           valueT |-> "", formJson |-> FALSE, p |-> NoPayload ]

NoLoc == [ payload |-> NoPayload, contactId |-> "", isNew |-> FALSE,
           nubimedBookingId |-> "", existingAppointmentId |-> "",
           appointmentId |-> "", bookingIds |-> << >>, appointmentIds |-> << >>,
           calendarError |-> "" ]

NoResp == [ code |-> 0, status |-> "", message |-> "", contactId |-> "",
            isNew |-> FALSE, appointmentId |-> "" ]

\* a remote call and its answer; bookingIds and appointmentIds are the values
\* of the two correlation fields in the answer (GET) or in the request (PUT)
Call(op, id, outcome) ==
  [ op |-> op, id |-> id, outcome |-> outcome, bookingIds |-> "", appointmentIds |-> "" ]

Init ==
  /\ env \in [ token : BOOLEAN, location : BOOLEAN ]
  /\ fields = [ appointment_ids |-> "", booking_ids |-> "" ]
  /\ events = { }
  /\ nextAppt = 0
  /\ pairs = << >>
  /\ pc = [ q \in Procs |-> "idle" ]
  /\ req = [ q \in Procs |-> NoReq ]
  /\ loc = [ q \in Procs |-> NoLoc ]
  /\ calls = [ q \in Procs |-> << >> ]
  /\ resp = [ q \in Procs |-> NoResp ]

\* the CRM rejects every request that carries no bearer token
Answers == IF env.token THEN Outcomes ELSE Outcomes \ { "ok" }

\* res.status(code).json({status, message, ...}) and the end of the handler
Respond(q, code, status, message, contactId, isNew, appointmentId) ==
  /\ resp' = [ resp EXCEPT ![q] =
                 [ code |-> code, status |-> status, message |-> message,
                   contactId |-> contactId, isNew |-> isNew,
                   appointmentId |-> appointmentId ] ]
  /\ pc' = [ pc EXCEPT ![q] = "done" ]

\* the table as the calendar service reads it from the stored field values
TableBookingIds == parseCommaSeparatedIds(fields.booking_ids)
TableAppointmentIds == parseCommaSeparatedIds(fields.appointment_ids)

\* GET /contacts/{id} and its answer
GetContact(id, o) ==
  IF o = "ok"
  THEN [ Call("GET contact", id, o) EXCEPT
           !.bookingIds = fields.booking_ids,
           !.appointmentIds = fields.appointment_ids ]
  ELSE Call("GET contact", id, o)

\* mutant: a booking id that is not found yields the first appointment id
LookupFirstAppointmentId(nubimedBookingId) ==
  IF fields.appointment_ids # "" /\ fields.booking_ids # ""
  THEN LET bookingIndex == IndexOf(TableBookingIds, nubimedBookingId) IN
       IF bookingIndex >= 1 /\ bookingIndex <= Len(TableAppointmentIds)
       THEN TableAppointmentIds[bookingIndex]
       ELSE IF Len(TableAppointmentIds) > 0 THEN TableAppointmentIds[1] ELSE ""
  ELSE ""

\* getExistingAppointmentId, after a 2xx answer to its contact fetch
LookupAppointmentId(nubimedBookingId) ==
  IF fields.appointment_ids # "" /\ fields.booking_ids # ""
  THEN LET bookingIndex == IndexOf(TableBookingIds, nubimedBookingId) IN
       IF bookingIndex >= 1 /\ bookingIndex <= Len(TableAppointmentIds)
       THEN TableAppointmentIds[bookingIndex] ELSE ""
  ELSE ""

\* removal of the pair of a booking id from the history
RECURSIVE RemovePair(_, _)
RemovePair(ps, bookingId) ==
  IF Len(ps) = 0 THEN << >>
  ELSE IF ps[1][1] = bookingId THEN Tail(ps)
  ELSE << ps[1] >> \o RemovePair(Tail(ps), bookingId)

(***************************************************************************)
(* POST /webhook/nubimed/deleted                                           *)
(***************************************************************************)
\* lines 258-280: the payload the handler works on
DeletedNormalize(r) ==
  IF r.ct = "form"
  THEN [ r.p EXCEPT
           !.top = [ NoObj EXCEPT
                       !.name = Or(r.p.top.name, Str("cita_eliminada")),
                       !.contact_id = r.p.top.contact_id ],
           !.ppatient = NoPatient,
           !.dpatients = IF r.p.dataT = "undefined" THEN << >> ELSE r.p.dpatients,
           !.bookingT = IF r.p.dataT = "undefined" THEN "undefined" ELSE r.p.bookingT ]
  ELSE r.p

\* lines 299-303
DeletedBookingId(payload) ==
  OrS(DataOf(payload).deleted_booking_id,
      OrS(DataOf(payload).booking_id,
          OrS(payload.top.booking_id, payload.top.deleted_booking_id)))

\* a deletion request: content type, contact id, and a booking id in one of
\* the places the handler looks at
DeletedPayload(cid, place, bid) ==
  [ NoPayload EXCEPT
      !.top = [ NoObj EXCEPT
                  !.contact_id = cid,
                  !.booking_id = IF place = "booking_id" THEN bid ELSE "",
                  !.deleted_booking_id =
                      IF place = "deleted_booking_id" THEN bid ELSE "" ],
      !.dataT = IF place \in { "data.booking_id", "data.deleted_booking_id" }
                THEN "object" ELSE "undefined",
      !.data = [ NoObj EXCEPT
                   !.booking_id = IF place = "data.booking_id" THEN bid ELSE "",
                   !.deleted_booking_id =
                       IF place = "data.deleted_booking_id" THEN bid ELSE "" ] ]

DeletedPlaces ==
  { "booking_id", "deleted_booking_id", "data.booking_id", "data.deleted_booking_id" }

\* every place is tried with one booking id, every booking id in one place
DeletedContents ==
  { << place, "b1" >> : place \in DeletedPlaces }
  \cup { << "booking_id", bid >> : bid \in BookingIdInputs \cup { "" } }

DeletedRequests ==
  { [ kind |-> "deleted", ct |-> ct, bodyT |-> "value", textOk |-> TRUE,
      valueT |-> "object", formJson |-> (ct = "form"),
      p |-> DeletedPayload(cid, c[1], c[2]) ] :
      ct \in { "json", "form" }, cid \in { "", ContactId }, c \in DeletedContents }
  \cup
  { [ kind |-> "deleted", ct |-> "json", bodyT |-> "value", textOk |-> TRUE,
      valueT |-> vt, formJson |-> FALSE, p |-> NoPayload ] :
      vt \in { "number", "null" } }

\* at most one request is handled at a time
NoneInProgress == \A q \in Procs : pc[q] = "idle"

\* lines 250-337: from the arrival of the request to the first contact fetch
DeletedReceive(q, r) ==
  LET payload == DeletedNormalize(r)
      contactId == payload.top.contact_id
      nubimedBookingId == DeletedBookingId(payload)
  IN
  /\ pc[q] = "idle"
  /\ r.kind = "deleted"
  /\ req' = [ req EXCEPT ![q] = r ]
  /\ calls' = [ calls EXCEPT ![q] = << >> ]
  /\ loc' = [ loc EXCEPT ![q] =
                [ NoLoc EXCEPT !.payload = payload, !.contactId = contactId,
                               !.nubimedBookingId = nubimedBookingId ] ]
  /\ IF r.valueT # "object"
     THEN Respond(q, 400, "error", "Invalid payload structure", "", FALSE, "")
     ELSE IF contactId = ""
     THEN Respond(q, 400, "error", "Contact ID is required", "", FALSE, "")
     ELSE IF nubimedBookingId = ""
     THEN Respond(q, 400, "error", "Booking ID is required", "", FALSE, "")
     ELSE /\ pc' = [ pc EXCEPT ![q] = "del_lookup" ]
          /\ UNCHANGED resp
  /\ UNCHANGED << env, fields, events, nextAppt, pairs >>


\* mutant: a contact fetch that fails raises out of the lookup
DeletedLookupRaise(q, o) ==
  LET existingAppointmentId ==
        IF o = "ok" THEN LookupAppointmentId(loc[q].nubimedBookingId) ELSE ""
  IN
  /\ pc[q] = "del_lookup"
  /\ o \in Answers
  /\ calls' = [ calls EXCEPT ![q] = Append(@, GetContact(loc[q].contactId, o)) ]
  /\ loc' = [ loc EXCEPT ![q].existingAppointmentId = existingAppointmentId ]
  /\ IF o # "ok"
     THEN Respond(q, 200, "error", "Error processing deleted appointment",
                  "", FALSE, "")
     ELSE IF existingAppointmentId = ""
     THEN Respond(q, 200, "ignored", "Appointment not found in GHL calendar",
                  "", FALSE, "")
     ELSE IF ~ env.token
     THEN Respond(q, 200, "error", "Error processing deleted appointment",
                  "", FALSE, "")
     ELSE /\ pc' = [ pc EXCEPT ![q] = "del_delete" ]
          /\ UNCHANGED resp
  /\ UNCHANGED << env, fields, events, nextAppt, pairs, req >>

\* lines 337-367 with getExistingAppointmentId: the answer to the contact fetch
DeletedLookup(q, o) ==
  LET existingAppointmentId ==
        IF o = "ok" THEN LookupAppointmentId(loc[q].nubimedBookingId) ELSE ""
  IN
  /\ pc[q] = "del_lookup"
  /\ o \in Answers
  /\ calls' = [ calls EXCEPT ![q] = Append(@, GetContact(loc[q].contactId, o)) ]
  /\ loc' = [ loc EXCEPT ![q].existingAppointmentId = existingAppointmentId ]
  /\ IF existingAppointmentId = ""
     THEN Respond(q, 200, "ignored", "Appointment not found in GHL calendar",
                  "", FALSE, "")
     ELSE IF ~ env.token
     \* deleteAppointment throws before its request
     THEN Respond(q, 200, "error", "Error processing deleted appointment",
                  "", FALSE, "")
     ELSE /\ pc' = [ pc EXCEPT ![q] = "del_delete" ]
          /\ UNCHANGED resp
  /\ UNCHANGED << env, fields, events, nextAppt, pairs, req >>

\* mutant: a 404 answer to the DELETE is an error
DeleteSucceededStrict(o) == o = "ok"

\* deleteAppointment lines 276-315: the answers it returns success for
DeleteSucceeded(o) == o \in { "ok", "not_found" }

\* mutant: a DELETE that failed is sent again
DeletedDeleteRetry(q, o) ==
  LET id == loc[q].existingAppointmentId IN
  /\ pc[q] = "del_delete"
  /\ o \in Answers
  /\ o = "ok" => id \in events
  /\ o = "not_found" => id \notin events
  /\ calls' = [ calls EXCEPT ![q] = Append(@, Call("DELETE event", id, o)) ]
  /\ events' = IF o = "ok" THEN events \ { id } ELSE events
  /\ pc' = [ pc EXCEPT ![q] = IF DeleteSucceeded(o) THEN "rem_get" ELSE "del_delete" ]
  /\ UNCHANGED << env, fields, nextAppt, pairs, req, loc, resp >>


\* mutant: a DELETE that failed is logged and the removal goes on
DeletedDeleteSwallow(q, o) ==
  LET id == loc[q].existingAppointmentId IN
  /\ pc[q] = "del_delete"
  /\ o \in Answers
  /\ o = "ok" => id \in events
  /\ o = "not_found" => id \notin events
  /\ calls' = [ calls EXCEPT ![q] = Append(@, Call("DELETE event", id, o)) ]
  /\ events' = IF o = "ok" THEN events \ { id } ELSE events
  /\ pc' = [ pc EXCEPT ![q] = "rem_get" ]
  /\ UNCHANGED << env, fields, nextAppt, pairs, req, loc, resp >>

\* deleteAppointment: the answer to DELETE /calendars/events/{id}
DeletedDelete(q, o) ==
  LET id == loc[q].existingAppointmentId IN
  /\ pc[q] = "del_delete"
  /\ o \in Answers
  /\ o = "ok" => id \in events
  /\ o = "not_found" => id \notin events
  /\ calls' = [ calls EXCEPT ![q] = Append(@, Call("DELETE event", id, o)) ]
  /\ events' = IF o = "ok" THEN events \ { id } ELSE events
  /\ IF DeleteSucceeded(o)
     THEN /\ pc' = [ pc EXCEPT ![q] = "rem_get" ]
          /\ UNCHANGED resp
     ELSE Respond(q, 200, "error", "Error processing deleted appointment",
                  "", FALSE, "")
  /\ UNCHANGED << env, fields, nextAppt, pairs, req, loc >>


\* mutant: the handler ends after the removal without sending a response
DeletedSuccessNoReply(q) ==
  /\ pc' = [ pc EXCEPT ![q] = "hung" ]
  /\ UNCHANGED resp

DeletedSuccess(q) ==
  Respond(q, 200, "success", "Appointment deleted successfully", "", FALSE,
          loc[q].existingAppointmentId)

\* removeContactAppointmentIds lines 623-626
IndexToRemove(bookingIds, nubimedBookingId) == IndexOf(bookingIds, nubimedBookingId)

\* removeContactAppointmentIds, lines 572-637: the answer to its contact fetch
RemoveGet(q, o) ==
  LET appointmentIds == TableAppointmentIds
      bookingIds == TableBookingIds
      indexToRemove == IndexToRemove(bookingIds, loc[q].nubimedBookingId)
  IN
  /\ pc[q] = "rem_get"
  /\ o \in Answers
  /\ calls' = [ calls EXCEPT ![q] = Append(@, GetContact(loc[q].contactId, o)) ]
  /\ IF o = "ok" /\ indexToRemove >= 1
     THEN /\ loc' = [ loc EXCEPT
                        ![q].bookingIds = Splice(bookingIds, indexToRemove),
                        ![q].appointmentIds =
                            IF indexToRemove <= Len(appointmentIds)
                            THEN Splice(appointmentIds, indexToRemove)
                            ELSE appointmentIds ]
          /\ pc' = [ pc EXCEPT ![q] = "rem_put" ]
          /\ UNCHANGED resp
     ELSE /\ DeletedSuccess(q)
          /\ UNCHANGED loc
  /\ UNCHANGED << env, fields, events, nextAppt, pairs, req >>

\* removeContactAppointmentIds, lines 635-697: the answer to PUT /contacts/{id}
RemovePut(q, o) ==
  LET appointmentIdsStr == formatCommaSeparatedIds(loc[q].appointmentIds)
      bookingIdsStr == formatCommaSeparatedIds(loc[q].bookingIds)
  IN
  /\ pc[q] = "rem_put"
  /\ o \in Answers
  /\ calls' = [ calls EXCEPT ![q] =
                  Append(@, [ Call("PUT contact", loc[q].contactId, o) EXCEPT
                                !.bookingIds = bookingIdsStr,
                                !.appointmentIds = appointmentIdsStr ]) ]
  /\ IF o = "ok"
     THEN /\ fields' = [ appointment_ids |-> appointmentIdsStr,
                         booking_ids |-> bookingIdsStr ]
          /\ pairs' = RemovePair(pairs, loc[q].nubimedBookingId)
     ELSE UNCHANGED << fields, pairs >>
  /\ DeletedSuccess(q)
  /\ UNCHANGED << env, events, nextAppt, req, loc >>

\* the handler has returned: the slot is free for the next request
Finish(q) ==
  /\ pc[q] = "done"
  /\ pc' = [ pc EXCEPT ![q] = "idle" ]
  /\ req' = [ req EXCEPT ![q] = NoReq ]
  /\ loc' = [ loc EXCEPT ![q] = NoLoc ]
  /\ calls' = [ calls EXCEPT ![q] = << >> ]
  /\ resp' = [ resp EXCEPT ![q] = NoResp ]
  /\ UNCHANGED << env, fields, events, nextAppt, pairs >>

(***************************************************************************)
(* POST /webhook/nubimed                                                   *)
(***************************************************************************)
\* lines 45-102: the envelope rebuilt from a form-encoded body
FormEnvelope(r) ==
  IF r.p.dataT = "undefined" \/ (r.p.dataT = "string" /\ r.p.dataS = "")
  THEN r.p
  ELSE [ r.p EXCEPT
           !.top = [ NoObj EXCEPT
                       !.name = IF r.p.dataT = "object" /\ r.formJson
                                THEN Or(r.p.top.name, r.p.data.name)
                                ELSE r.p.top.name ],
           !.ppatient = NoPatient ]

\* mutant: a body that does not parse is handed on as an empty object
MainNormalizeLenient(r) ==
  IF r.ct = "form"
  THEN [ code |-> 0, message |-> "", payload |-> FormEnvelope(r) ]
  ELSE IF r.valueT # "object" /\ r.textOk
  THEN [ code |-> 400, message |-> "Invalid payload structure", payload |-> NoPayload ]
  ELSE [ code |-> 0, message |-> "", payload |-> r.p ]

\* lines 43-148: the response code of the normalisation (0: none), its
\* message and the payload handed on
MainNormalize(r) ==
  IF r.ct = "form"
  THEN [ code |-> 0, message |-> "", payload |-> FormEnvelope(r) ]
  ELSE IF r.ct = "json" /\ r.bodyT \in { "buffer", "string" } /\ ~ r.textOk
  THEN [ code |-> 400, message |-> "Invalid JSON format", payload |-> NoPayload ]
  ELSE IF r.ct # "json" /\ r.bodyT = "string"
  THEN [ code |-> 400, message |-> "Invalid payload structure", payload |-> NoPayload ]
  ELSE IF r.valueT # "object"
  THEN [ code |-> 400, message |-> "Invalid payload structure", payload |-> NoPayload ]
  ELSE [ code |-> 0, message |-> "", payload |-> r.p ]

Patient(phone) ==
  [ t |-> "object", phone |-> phone, email |-> "", name |-> "Ana", surname |-> "Ruiz" ]

\* the envelope { name, contact_id, data: { date, booking: { id, start_at,
\* status, patients: [ { name, surname, phone } ] } } }
MainPayload(name, cid, bid, start, ddate, status, phone) ==
  [ NoPayload EXCEPT
      !.top = [ NoObj EXCEPT !.name = name, !.contact_id = cid ],
      !.dataT = "object",
      !.data = [ NoObj EXCEPT !.date = ddate ],
      !.bookingT = "object",
      !.booking = [ NoObj EXCEPT !.id = bid, !.start_at = start, !.status = status ],
      !.patients = << Patient(phone) >> ]

Phone == "600111222"

\* payloads that differ in what the calendar sub-flow depends on
CalendarPayloads ==
  { MainPayload(Str("new_booking"), "", bid, start, ValidDate, Undef, Phone) :
      bid \in BookingIdInputs \cup { "" }, start \in { "", ValidDate } }

\* payloads that differ in what the filter and the contact sync depend on
ContactPayloads ==
  { MainPayload(name, "", "b1", start, ddate, Undef, phone) :
      name \in { Str("new_booking"), Str("cita_modificada"), Str("cita_eliminada"),
                 Str("Booking_Updated"), Num("7"), Undef },
      start \in { "", ValidDate, BadDate }, ddate \in { "", ValidDate },
      phone \in { "", Phone } }

\* a payload that carries the contact id
KnownContactPayloads ==
  { MainPayload(Str("new_booking"), ContactId, "b2", ValidDate, "", Undef, Phone) }

MainPayloads == CalendarPayloads \cup ContactPayloads \cup KnownContactPayloads

\* form fields are strings
FormPayloads ==
  { p \in CalendarPayloads \cup KnownContactPayloads : p.booking.id \in { "", "b1", "b2" } }

\* bodies that reach the handler unparsed or that are not objects
RawRequests ==
  { [ kind |-> "main", ct |-> "json", bodyT |-> bt, textOk |-> ok,
      valueT |-> vt, formJson |-> FALSE,
      p |-> IF ok /\ vt = "object"
            THEN MainPayload(Str("new_booking"), "", "b1", ValidDate, "", Undef, Phone)
            ELSE NoPayload ] :
      bt \in { "value", "buffer", "string" }, ok \in BOOLEAN,
      vt \in { "object", "number", "null" } }

MainRequests ==
  { [ kind |-> "main", ct |-> "json", bodyT |-> "value", textOk |-> TRUE,
      valueT |-> "object", formJson |-> FALSE, p |-> p ] : p \in MainPayloads }
  \cup
  { [ kind |-> "main", ct |-> "form", bodyT |-> "value", textOk |-> TRUE,
      valueT |-> "object", formJson |-> TRUE, p |-> p ] : p \in FormPayloads }
  \cup
  { r \in RawRequests : r.bodyT = "value" => r.textOk }

\* lines 220-231
MainSuccess(q) ==
  Respond(q, 200, "success", "Webhook processed successfully",
          loc[q].contactId, loc[q].isNew, "")

\* mutant: the calendar error reaches the outer catch
CalendarRethrow(q) ==
  Respond(q, 200, "error", "Webhook received but error occurred", "", FALSE, "")

\* lines 210-231: the inner catch logs the calendar error and the handler
\* goes on to the success response
CalendarCatch(q) == MainSuccess(q)

\* mutant: the error reaches the Express error middleware
WebhookErrorUncaught(q) ==
  Respond(q, 500, "error", "Internal server error", "", FALSE, "")

\* lines 233-246: the outer catch
WebhookError(q) ==
  Respond(q, 200, "error", "Webhook received but error occurred", "", FALSE, "")

\* lines 37-171: from the arrival of the request to the contact upsert request
MainReceive(q, r) ==
  LET n == MainNormalize(r) IN
  /\ pc[q] = "idle"
  /\ r.kind = "main"
  /\ req' = [ req EXCEPT ![q] = r ]
  /\ calls' = [ calls EXCEPT ![q] = << >> ]
  /\ loc' = [ loc EXCEPT ![q] = [ NoLoc EXCEPT !.payload = n.payload ] ]
  /\ IF n.code # 0
     THEN Respond(q, n.code, "error", n.message, "", FALSE, "")
     ELSE IF FilterThrows(n.payload)
     THEN WebhookError(q)
     ELSE IF ~ shouldProcessWebhook(n.payload)
     THEN Respond(q, 200, "ignored",
                  "Webhook received but ignored based on filtering rules",
                  "", FALSE, "")
     ELSE IF SyncToGHLPrecheck(n.payload, env) # "fetch"
     THEN WebhookError(q)
     ELSE /\ pc' = [ pc EXCEPT ![q] = "upsert" ]
          /\ UNCHANGED resp
  /\ UNCHANGED << env, fields, events, nextAppt, pairs >>

\* lines 177-184 on the payload: "throw" (eventName.includes is not a
\* function), "skip" (no calendar sync) or "sync"
CalendarGate(payload, contactId) ==
  LET eventName == Or(payload.top.name, Str(""))
      nubimedBookingId == extractAppointmentData(payload).nubimedBookingId
  IN
  IF contactId = "" THEN "skip"
  ELSE IF eventName.t # "string" THEN "throw"
  ELSE IF ~ (Includes(eventName.v, "booking") \/ Includes(eventName.v, "cita"))
       THEN "skip"
  ELSE IF nubimedBookingId = "" THEN "skip"
  ELSE "sync"

\* syncToGHL lines 259-302 and handler lines 171-186: the answer to
\* POST /contacts/upsert
MainUpsert(q, o, isNew) ==
  LET contactId == OrS(loc[q].payload.top.contact_id, ContactId)
      gate == CalendarGate(loc[q].payload, contactId)
  IN
  /\ pc[q] = "upsert"
  /\ o \in Answers
  /\ o # "ok" => ~ isNew
  /\ calls' = [ calls EXCEPT ![q] = Append(@, Call("POST upsert", "", o)) ]
  /\ IF o # "ok"
     THEN /\ WebhookError(q)
          /\ UNCHANGED loc
     ELSE /\ loc' = [ loc EXCEPT
                        ![q].contactId = ContactId,
                        ![q].isNew = isNew,
                        ![q].nubimedBookingId =
                            IF gate = "sync"
                            THEN extractAppointmentData(loc[q].payload).nubimedBookingId
                            ELSE "" ]
          /\ IF gate = "throw"
             THEN WebhookError(q)
             ELSE IF gate = "skip"
             THEN Respond(q, 200, "success", "Webhook processed successfully",
                          ContactId, isNew, "")
             ELSE /\ pc' = [ pc EXCEPT ![q] = "lookup" ]
                  /\ UNCHANGED resp
  /\ UNCHANGED << env, fields, events, nextAppt, pairs, req >>

\* the contact id the calendar sub-flow works on (line 175)
CalendarContactId(q) == OrS(loc[q].payload.top.contact_id, loc[q].contactId)

\* getExistingAppointmentId and createOrUpdateAppointment lines 75-146: the
\* answer to the contact fetch of the lookup
MainLookup(q, o) ==
  LET existingAppointmentId ==
        IF o = "ok" THEN LookupAppointmentId(loc[q].nubimedBookingId) ELSE ""
      pre == AppointmentPrecheck(loc[q].payload, CalendarContactId(q), env)
  IN
  /\ pc[q] = "lookup"
  /\ o \in Answers
  /\ calls' = [ calls EXCEPT ![q] =
                  Append(@, GetContact(CalendarContactId(q), o)) ]
  /\ loc' = [ loc EXCEPT
                ![q].existingAppointmentId = existingAppointmentId,
                ![q].calendarError = IF pre = "fetch" THEN "" ELSE pre ]
  /\ IF pre # "fetch"
     THEN CalendarCatch(q)
     ELSE /\ pc' = [ pc EXCEPT ![q] =
                       IF existingAppointmentId # "" THEN "appt_put" ELSE "appt_post" ]
          /\ UNCHANGED resp
  /\ UNCHANGED << env, fields, events, nextAppt, pairs, req >>

\* mutant: no return after a successful update, the create always follows
AfterUpdateFallThrough(o) == "appt_post"

\* createOrUpdateAppointment lines 165-196: after a successful update the
\* result goes to the correlation write, after a failed one the create follows
AfterUpdate(o) == IF o = "ok" THEN "corr_get" ELSE "appt_post"

\* createOrUpdateAppointment lines 146-196: the answer to
\* PUT /calendars/events/appointments/{id}; rid is the id in the answer
AppointmentPut(q, o, rid) ==
  LET id == loc[q].existingAppointmentId IN
  /\ pc[q] = "appt_put"
  /\ o \in Answers
  /\ o = "ok" => id \in events
  /\ o = "not_found" => id \notin events
  /\ rid \in IF o = "ok" THEN { id, OtherApptId } ELSE { "" }
  /\ calls' = [ calls EXCEPT ![q] = Append(@, Call("PUT appointment", id, o)) ]
  /\ loc' = [ loc EXCEPT ![q].appointmentId = rid ]
  /\ pc' = [ pc EXCEPT ![q] = AfterUpdate(o) ]
  /\ UNCHANGED << env, fields, events, nextAppt, pairs, req, resp >>

\* createOrUpdateAppointment lines 198-248: the answer to
\* POST /calendars/events/appointments
AppointmentPost(q, o) ==
  /\ pc[q] = "appt_post"
  /\ o \in Answers \ { "not_found" }
  /\ o = "ok" => nextAppt < MaxAppts
  /\ calls' = [ calls EXCEPT ![q] = Append(@, Call("POST appointment", "", o)) ]
  /\ IF o = "ok"
     THEN /\ nextAppt' = nextAppt + 1
          /\ events' = events \cup { ApptId(nextAppt + 1) }
          /\ loc' = [ loc EXCEPT ![q].appointmentId = ApptId(nextAppt + 1) ]
          /\ pc' = [ pc EXCEPT ![q] = "corr_get" ]
          /\ UNCHANGED resp
     ELSE /\ loc' = [ loc EXCEPT ![q].calendarError = "GHL API error" ]
          /\ CalendarCatch(q)
          /\ UNCHANGED << nextAppt, events >>
  /\ UNCHANGED << env, fields, pairs, req >>

\* mutant: the booking id is never found in the list
ExistingIndexMissed(bookingIds, nubimedBookingId) == 0

\* updateContactAppointmentIds lines 484-488
ExistingIndex(bookingIds, nubimedBookingId) == IndexOf(bookingIds, nubimedBookingId)

\* mutant: the new id is put in front
UnshiftId(ids, id) == << id >> \o ids

\* updateContactAppointmentIds lines 502-504: push at the end
PushId(ids, id) == Append(ids, id)

\* updateContactAppointmentIds lines 433-513: the answer to its contact fetch
CorrelationGet(q, o) ==
  LET appointmentIds == TableAppointmentIds
      bookingIds == TableBookingIds
      existingIndex == ExistingIndex(bookingIds, loc[q].nubimedBookingId)
  IN
  /\ pc[q] = "corr_get"
  /\ o \in Answers
  /\ calls' = [ calls EXCEPT ![q] =
                  Append(@, GetContact(CalendarContactId(q), o)) ]
  /\ IF o = "ok" /\ existingIndex = 0
     THEN /\ loc' = [ loc EXCEPT
                        ![q].bookingIds = PushId(bookingIds, loc[q].nubimedBookingId),
                        ![q].appointmentIds = PushId(appointmentIds, loc[q].appointmentId) ]
          /\ pc' = [ pc EXCEPT ![q] = "corr_put" ]
          /\ UNCHANGED resp
     ELSE /\ MainSuccess(q)
          /\ UNCHANGED loc
  /\ UNCHANGED << env, fields, events, nextAppt, pairs, req >>

\* mutant: the write adds the pair to the lists the contact holds at the time
\* of the write, not to the lists that were read
CorrelationPutAtomic(q, o) ==
  LET appointmentIdsStr ==
        formatCommaSeparatedIds(PushId(TableAppointmentIds, loc[q].appointmentId))
      bookingIdsStr ==
        formatCommaSeparatedIds(PushId(TableBookingIds, loc[q].nubimedBookingId))
  IN
  /\ pc[q] = "corr_put"
  /\ o \in Answers
  /\ calls' = [ calls EXCEPT ![q] =
                  Append(@, [ Call("PUT contact", CalendarContactId(q), o) EXCEPT
                                !.bookingIds = bookingIdsStr,
                                !.appointmentIds = appointmentIdsStr ]) ]
  /\ IF o = "ok"
     THEN /\ fields' = [ appointment_ids |-> appointmentIdsStr,
                         booking_ids |-> bookingIdsStr ]
          /\ pairs' = Append(pairs, << loc[q].nubimedBookingId, loc[q].appointmentId >>)
     ELSE UNCHANGED << fields, pairs >>
  /\ MainSuccess(q)
  /\ UNCHANGED << env, events, nextAppt, req, loc >>

\* updateContactAppointmentIds lines 511-567: the answer to PUT /contacts/{id}
CorrelationPut(q, o) ==
  LET appointmentIdsStr == formatCommaSeparatedIds(loc[q].appointmentIds)
      bookingIdsStr == formatCommaSeparatedIds(loc[q].bookingIds)
  IN
  /\ pc[q] = "corr_put"
  /\ o \in Answers
  /\ calls' = [ calls EXCEPT ![q] =
                  Append(@, [ Call("PUT contact", CalendarContactId(q), o) EXCEPT
                                !.bookingIds = bookingIdsStr,
                                !.appointmentIds = appointmentIdsStr ]) ]
  /\ IF o = "ok"
     THEN /\ fields' = [ appointment_ids |-> appointmentIdsStr,
                         booking_ids |-> bookingIdsStr ]
          /\ pairs' = Append(pairs, << loc[q].nubimedBookingId, loc[q].appointmentId >>)
     ELSE UNCHANGED << fields, pairs >>
  /\ MainSuccess(q)
  /\ UNCHANGED << env, events, nextAppt, req, loc >>

(***************************************************************************)
(* Specification: requests are handled one at a time                       *)
(***************************************************************************)
Next ==
  \E q \in { FirstProc } :
    \/ \E r \in MainRequests : NoneInProgress /\ MainReceive(q, r)
    \/ \E o \in Outcomes, isNew \in BOOLEAN : MainUpsert(q, o, isNew)
    \/ \E o \in Outcomes : MainLookup(q, o)
    \/ \E o \in Outcomes, rid \in { "", OtherApptId, loc[q].existingAppointmentId } :
         AppointmentPut(q, o, rid)
    \/ \E o \in Outcomes : AppointmentPost(q, o)
    \/ \E o \in Outcomes : CorrelationGet(q, o)
    \/ \E o \in Outcomes : CorrelationPut(q, o)
    \/ \E r \in DeletedRequests : NoneInProgress /\ DeletedReceive(q, r)
    \/ \E o \in Outcomes : DeletedLookup(q, o)
    \/ \E o \in Outcomes : DeletedDelete(q, o)
    \/ \E o \in Outcomes : RemoveGet(q, o)
    \/ \E o \in Outcomes : RemovePut(q, o)
    \/ Finish(q)

Spec == Init /\ [][Next]_vars


(***************************************************************************)
(* Requests handled one at a time, with every remote call answered in the  *)
(* end: the step that follows an await is taken once the call has          *)
(* returned or failed.                                                     *)
(***************************************************************************)
\* the remote call the handler awaits returns or fails
Answered(q) ==
  \/ \E o \in Outcomes, isNew \in BOOLEAN : MainUpsert(q, o, isNew)
  \/ \E o \in Outcomes : MainLookup(q, o)
  \/ \E o \in Outcomes, rid \in { "", OtherApptId, loc[q].existingAppointmentId } :
       AppointmentPut(q, o, rid)
  \/ \E o \in Outcomes : AppointmentPost(q, o)
  \/ \E o \in Outcomes : CorrelationGet(q, o)
  \/ \E o \in Outcomes : CorrelationPut(q, o)
  \/ \E o \in Outcomes : DeletedLookup(q, o)
  \/ \E o \in Outcomes : DeletedDelete(q, o)
  \/ \E o \in Outcomes : RemoveGet(q, o)
  \/ \E o \in Outcomes : RemovePut(q, o)

\* one request for each way a handler ends: a sync that reaches the calendar,
\* an ignored event, a sync without contact information, a name that is not
\* a string, a body that does not parse; a deletion, a deletion without
\* contact id, a deletion whose body is not an object
AnsweredRequests ==
  { r \in MainRequests :
      \/ /\ r.ct = "json" /\ r.bodyT = "value" /\ r.valueT = "object"
         /\ r.p \in { MainPayload(Str("new_booking"), "", "b1", ValidDate, "", Undef, Phone),
                      MainPayload(Str("cita_eliminada"), "", "b1", ValidDate, "", Undef, Phone),
                      MainPayload(Str("new_booking"), "", "b1", ValidDate, "", Undef, ""),
                      MainPayload(Num("7"), "", "b1", ValidDate, "", Undef, Phone) }
      \/ r.bodyT = "buffer" /\ ~ r.textOk /\ r.valueT = "object" }
  \cup
  { r \in DeletedRequests :
      \/ r.ct = "json" /\ r.valueT = "object" /\ r.p.top.booking_id = "b1"
      \/ r.valueT = "number" }

AnsweredNext ==
  \E q \in { FirstProc } :
    \/ \E r \in AnsweredRequests : NoneInProgress /\ MainReceive(q, r)
    \/ \E r \in AnsweredRequests : NoneInProgress /\ DeletedReceive(q, r)
    \/ Answered(q)
    \/ Finish(q)

FairSpec ==
  Init /\ [][AnsweredNext]_vars /\ \A q \in { FirstProc } : WF_vars(Answered(q))

(***************************************************************************)
(* Concurrent deliveries: every slot handles one main-webhook request for  *)
(* a new booking of the same contact; the handlers interleave at their     *)
(* awaits, that is between any two remote calls.                           *)
(***************************************************************************)
ConcurrentRequests ==
  { [ kind |-> "main", ct |-> "json", bodyT |-> "value", textOk |-> TRUE,
      valueT |-> "object", formJson |-> FALSE,
      p |-> MainPayload(Str("new_booking"), "", bid, ValidDate, "", Undef, Phone) ] :
      bid \in { "b1", "b2" } }

ConcurrentNext ==
  \E q \in Procs :
    \/ \E r \in ConcurrentRequests :
         /\ \A other \in Procs \ { q } : req[other] # r
         /\ MainReceive(q, r)
    \/ \E o \in Outcomes, isNew \in BOOLEAN : MainUpsert(q, o, isNew)
    \/ \E o \in Outcomes : MainLookup(q, o)
    \/ \E o \in Outcomes : AppointmentPost(q, o)
    \/ \E o \in Outcomes : CorrelationGet(q, o)
    \/ \E o \in Outcomes : CorrelationPut(q, o)

ConcurrentSpec == Init /\ [][ConcurrentNext]_vars

(***************************************************************************)
(* The first step of the main webhook on a wide range of requests: the     *)
(* normalisation, the classifier and the preconditions of syncToGHL are    *)
(* functions of the request alone.                                         *)
(***************************************************************************)
\* the envelope { name, status, data: { name, start_at, date, booking: { id,
\* name, status, start_at, patients } } }
ClassifierPayload(name, bname, dname, status, tstatus, start, dstart, bid) ==
  [ NoPayload EXCEPT
      !.top = [ NoObj EXCEPT !.name = name, !.status = tstatus ],
      !.dataT = "object",
      !.data = [ NoObj EXCEPT !.name = dname, !.start_at = dstart,
                              !.date = ValidDate ],
      !.bookingT = "object",
      !.booking = [ NoObj EXCEPT !.id = bid, !.name = bname, !.status = status,
                                 !.start_at = start ],
      !.patients = << Patient(Phone) >> ]

ClassifierNames ==
  { Undef, Str("new_booking"), Str("Cita_Eliminada"), Str("cita_modificada"),
    Str("x_NEW_INVOICE_1"), Str("booking_created"), Str("patient_note"),
    Num("7") }

ClassifierStatuses == { Undef, Num("5"), Num("4"), Str("5"), Str("Completed") }

ClassifierPayloads ==
  { ClassifierPayload(name, bname, dname, status, tstatus, start, dstart, bid) :
      name \in ClassifierNames,
      bname \in { Undef, Str("booking_completed") },
      dname \in { Undef, Str("new_booking") },
      status \in ClassifierStatuses,
      tstatus \in { Undef, Num("5") },
      start \in { "", ValidDate },
      dstart \in { "", ValidDate },
      bid \in { "", "b1" } }

\* envelopes that differ in the name field and in the name inside data; a
\* form field that is sent empty is the empty string
NormalizerPayloads ==
  { ClassifierPayload(name, Undef, dname, Undef, Undef, ValidDate, "", "b1") :
      name \in { Undef, Str(""), Str("cita_modificada") },
      dname \in { Undef, Str("new_booking") } }

\* a body whose data field is a string that is not JSON
StringDataPayload(name) ==
  [ NoPayload EXCEPT !.top = [ NoObj EXCEPT !.name = name ],
                     !.dataT = "string", !.dataS = "not json" ]

\* each envelope as a JSON body, as a form-encoded body whose data field is
\* the JSON text of data (formJson), and as a form-encoded body whose data
\* field the parser already made an object
NormalizerRequests ==
  { [ kind |-> "main", ct |-> ct, bodyT |-> "value", textOk |-> TRUE,
      valueT |-> "object", formJson |-> fj, p |-> p ] :
      ct \in { "json", "form" }, fj \in BOOLEAN,
      p \in NormalizerPayloads \cup { StringDataPayload(Str("new_booking")) } }

\* envelopes that differ in the phone and the email of the patient
ContactInfoPayloads ==
  { [ MainPayload(Str("new_booking"), "", "b1", start, "", Undef, phone) EXCEPT
        !.patients = << [ Patient(phone) EXCEPT !.email = email ] >> ] :
      phone \in { "", "n/a", Phone }, email \in { "", "ana@example.com" },
      start \in { "", BadDate, ValidDate } }


\* a patient object of one source place, with or without a phone
SourcePatient(name, phone) ==
  [ t |-> "object", phone |-> phone, email |-> "", name |-> name, surname |-> "Ruiz" ]

\* what one source place can hold: nothing, a patient with a phone, a
\* patient without one
SourcePatients(name, phone) ==
  { NoPatient, SourcePatient(name, phone), SourcePatient(name, "") }

\* a one-element array for a patient object, the empty array for none
PatientArray(s) == IF s.t = "object" THEN << s >> ELSE << >>

\* envelopes that differ in the places a patient is found (booking.patients,
\* data.patients, booking.patient) and in the flat top-level phone
PatientSourcePayloads ==
  { [ MainPayload(Str("new_booking"), "", "b1", ValidDate, "", Undef, "") EXCEPT
        !.top.phone = tphone,
        !.patients = PatientArray(bps),
        !.dpatients = PatientArray(dps),
        !.bpatient = bp ] :
      tphone \in { "", "699000111" },
      bps \in SourcePatients("Ana", "600111222"),
      dps \in SourcePatients("Bea", "600333444"),
      bp \in SourcePatients("Carla", "600555666") }


\* phone numbers as they are typed: with separators, with a country prefix,
\* with a '+' inside
PhoneInputs == { "600 111 222", "+34 600-111", "(34)600", "34+600", "+34+600" }

\* envelopes that differ in the phone of the patient
PhonePayloads ==
  { MainPayload(Str("new_booking"), "", "b1", ValidDate, "", Undef, phone) :
      phone \in PhoneInputs }


\* creation events named in another letter case, with every status
NewBookingPayloads ==
  { ClassifierPayload(Str("Nubimed.NEW_BOOKING"), Undef, Undef, status, Undef,
                      start, "", bid) :
      status \in ClassifierStatuses, start \in { "", ValidDate }, bid \in { "", "b1" } }

ReceiveRequests ==
  { [ kind |-> "main", ct |-> "json", bodyT |-> "value", textOk |-> TRUE,
      valueT |-> "object", formJson |-> FALSE, p |-> p ] :
      p \in ClassifierPayloads \cup ContactInfoPayloads \cup PatientSourcePayloads
              \cup PhonePayloads \cup NewBookingPayloads }
  \cup { r \in NormalizerRequests :
           /\ r.formJson => r.ct = "form" /\ r.p.dataT = "object" }
  \cup MainRequests

ReceiveNext ==
  \E q \in { FirstProc } : \E r \in ReceiveRequests : MainReceive(q, r)

ReceiveSpec == Init /\ [][ReceiveNext]_vars

(***************************************************************************)
(* Properties                                                              *)
(***************************************************************************)
Done(q) == pc[q] = "done"

\* the positions of the calls of one kind among the calls of a request
CallsOf(q, op) == { i \in 1..Len(calls[q]) : calls[q][i].op = op }

\* a comma-separated list with one more id at its end
AppendId(list, id) == IF list = "" THEN id ELSE list \o "," \o id

\* C1: after any sequence of syncs and deletions handled one at a time, with
\* every remote call free to succeed or fail, the booking-id list and the
\* appointment-id list stored in the contact's two custom fields have the
\* same length.
C1_EqualLength == Len(TableBookingIds) = Len(TableAppointmentIds)

\* C2: while a sync is handled for a booking id that is already in the
\* booking-id list, no step changes the two correlation fields and
\* updateContactAppointmentIds never goes on to its contact PUT, whatever
\* appointment id the update or create returned.
C2_ResyncLeavesTable ==
  [][ \A q \in Procs :
        ( /\ req[q].kind = "main"
          /\ pc[q] \in { "lookup", "appt_put", "appt_post", "corr_get" }
          /\ IndexOf(TableBookingIds, loc[q].nubimedBookingId) >= 1 )
        => ( /\ fields' = fields
             /\ pc'[q] # "corr_put"
             /\ CallsOf(q, "PUT contact")' = { } ) ]_vars

\* a re-sync whose update returned another appointment id than the stored
\* one has ended after the contact fetch of updateContactAppointmentIds
C2_Witness ==
  \E q \in Procs :
    /\ Done(q)
    /\ req[q].kind = "main"
    /\ IndexOf(TableBookingIds, loc[q].nubimedBookingId) >= 1
    /\ Len(calls[q]) = 4
    /\ calls[q][3].op = "PUT appointment"
    /\ calls[q][3].outcome = "ok"
    /\ loc[q].appointmentId = OtherApptId
    /\ LookupAppointmentId(loc[q].nubimedBookingId) # OtherApptId
    /\ calls[q][4].op = "GET contact"
    /\ calls[q][4].outcome = "ok"

\* C3: the table read from the two fields is, position by position, the
\* sequence of the (bookingId, appointmentId) pairs that were appended and not
\* deleted, in insertion order, and getExistingAppointmentId finds for every
\* such booking id the appointment id appended with it.
C3_PairsAligned ==
  /\ Len(TableBookingIds) = Len(pairs)
  /\ Len(TableAppointmentIds) = Len(pairs)
  /\ \A i \in 1..Len(pairs) :
       /\ TableBookingIds[i] = pairs[i][1]
       /\ TableAppointmentIds[i] = pairs[i][2]
       /\ LookupAppointmentId(pairs[i][1]) = pairs[i][2]

\* C4: when the lookup of a deletion request runs for a booking id that is
\* not in the contact's booking-id list, the request ends with 200 "ignored",
\* its only remote call is the contact fetch, and the correlation fields and
\* the calendar are unchanged.
C4_AbsentIgnored ==
  [][ \A q \in Procs :
        ( /\ req[q].kind = "deleted"
          /\ pc[q] = "del_lookup"
          /\ IndexOf(TableBookingIds, loc[q].nubimedBookingId) = 0 )
        => ( /\ pc'[q] = "done"
             /\ resp'[q].code = 200
             /\ resp'[q].status = "ignored"
             /\ fields' = fields
             /\ events' = events
             /\ \A i \in 1..Len(calls'[q]) : calls'[q][i].op = "GET contact" ) ]_vars

\* a deletion for an absent booking id was ignored while the table holds
\* other bookings
C4_Witness ==
  \E q \in Procs :
    /\ Done(q)
    /\ req[q].kind = "deleted"
    /\ resp[q].status = "ignored"
    /\ Len(calls[q]) = 1
    /\ calls[q][1].outcome = "ok"
    /\ Len(TableBookingIds) >= 1
    /\ IndexOf(TableBookingIds, loc[q].nubimedBookingId) = 0

\* C5: a deletion request that found a correlated appointment id issues the
\* DELETE for that id before any contact PUT; when the DELETE is answered 2xx
\* or 404 the response is 200 "success" with that appointment id, the removal
\* follows, and its PUT (issued when the contact fetch succeeded) carries both
\* lists without the entry at the index of the booking id; a PUT that
\* succeeded is what the contact stores.
C5_DeleteThenRemove ==
  \A q \in Procs :
    ( Done(q) /\ req[q].kind = "deleted" /\ Len(calls[q]) >= 2 ) =>
      LET c == calls[q]
          idx == IndexOf(parseCommaSeparatedIds(c[1].bookingIds),
                         loc[q].nubimedBookingId)
      IN
      /\ c[1].op = "GET contact" /\ c[1].outcome = "ok"
      /\ idx >= 1
      /\ c[2].op = "DELETE event"
      /\ c[2].id = parseCommaSeparatedIds(c[1].appointmentIds)[idx]
      /\ \A i \in CallsOf(q, "PUT contact") : i > 2
      /\ c[2].outcome \in { "ok", "not_found" } =>
           /\ resp[q].code = 200
           /\ resp[q].status = "success"
           /\ resp[q].appointmentId = c[2].id
           /\ Len(c) >= 3
           /\ c[3].op = "GET contact"
           /\ c[3].outcome = "ok" =>
                /\ Len(c) = 4
                /\ c[4].op = "PUT contact"
                /\ parseCommaSeparatedIds(c[4].bookingIds) =
                     Splice(parseCommaSeparatedIds(c[3].bookingIds), idx)
                /\ parseCommaSeparatedIds(c[4].appointmentIds) =
                     Splice(parseCommaSeparatedIds(c[3].appointmentIds), idx)
                /\ c[4].outcome = "ok" =>
                     fields = [ appointment_ids |-> c[4].appointmentIds,
                                booking_ids |-> c[4].bookingIds ]

\* a deletion whose DELETE was answered 404 ended with "success" and with the
\* entry removed from the stored table
C5_Witness ==
  \E q \in Procs :
    /\ Done(q)
    /\ req[q].kind = "deleted"
    /\ Len(calls[q]) = 4
    /\ calls[q][2].outcome = "not_found"
    /\ calls[q][4].outcome = "ok"
    /\ resp[q].status = "success"
    /\ IndexOf(TableBookingIds, loc[q].nubimedBookingId) = 0

\* C6: a main-webhook request whose contact upsert succeeded, and whose event
\* name could be tested for "booking" / "cita", ends with HTTP 200, status
\* "success" and the contactId and isNew of the upsert, whatever the outcome
\* of the correlation lookup, the appointment update, the appointment create
\* and the correlation write, and also when the start time is missing.
C6_CalendarFailureIsolated ==
  \A q \in Procs :
    ( /\ Done(q)
      /\ req[q].kind = "main"
      /\ Len(calls[q]) >= 1
      /\ calls[q][1].op = "POST upsert"
      /\ calls[q][1].outcome = "ok"
      /\ CalendarGate(loc[q].payload, CalendarContactId(q)) # "throw" ) =>
      /\ resp[q].code = 200
      /\ resp[q].status = "success"
      /\ resp[q].contactId = ContactId
      /\ resp[q].isNew = loc[q].isNew

\* a request whose calendar sub-flow threw for a missing start time, after
\* the lookup, was still answered "success"
C6_Witness ==
  \E q \in Procs :
    /\ Done(q)
    /\ req[q].kind = "main"
    /\ Len(calls[q]) = 2
    /\ loc[q].calendarError = "Appointment start time is required"
    /\ resp[q].status = "success"
    /\ resp[q].appointmentId = ""

\* C7: every main-webhook request is answered 200 or 400; 400 only when the
\* body text does not parse or the body is not an object; and a request that
\* passed the filter and whose contact sync threw (a precondition of
\* syncToGHL failed, or the CRM answered the upsert with anything but a 2xx
\* JSON body) is answered 200 with status "error".
C7_NoServerError ==
  \A q \in Procs :
    ( Done(q) /\ req[q].kind = "main" ) =>
      /\ resp[q].code \in { 200, 400 }
      /\ resp[q].code = 400 =>
           \/ req[q].bodyT \in { "buffer", "string" } /\ ~req[q].textOk
           \/ req[q].valueT # "object"
      /\ ( /\ \/ Len(calls[q]) >= 1 /\ calls[q][1].outcome # "ok"
              \/ SyncToGHLPrecheck(loc[q].payload, env) # "fetch"
           /\ MainNormalize(req[q]).code = 0
           /\ shouldProcessWebhook(loc[q].payload) )
         => resp[q].code = 200 /\ resp[q].status = "error"

\* the CRM answered the upsert with a body that is not JSON and the request
\* was answered 200 "error"
C7_Witness ==
  \E q \in Procs :
    /\ Done(q)
    /\ req[q].kind = "main"
    /\ Len(calls[q]) = 1
    /\ calls[q][1].op = "POST upsert"
    /\ calls[q][1].outcome = "bad_json"
    /\ resp[q].code = 200
    /\ resp[q].status = "error"

\* C8: in a main-webhook request the appointment PUT is issued only for a
\* non-empty existing appointment id and at most once; a POST next to a PUT
\* comes right after it and only when the PUT failed; a failed PUT is always
\* followed by the POST and the request still ends with "success"; without an
\* existing id, once the preconditions of createOrUpdateAppointment hold,
\* exactly one POST and no PUT is issued.
C8_UpdateThenCreate ==
  \A q \in Procs :
    req[q].kind = "main" =>
      LET c == calls[q]
          puts == CallsOf(q, "PUT appointment")
          posts == CallsOf(q, "POST appointment")
          existing == loc[q].existingAppointmentId
      IN
      /\ Cardinality(puts) <= 1
      /\ Cardinality(posts) <= 1
      /\ \A i \in puts :
           /\ existing # ""
           /\ c[i].id = existing
           /\ \A j \in posts : j = i + 1 /\ c[i].outcome # "ok"
      /\ \A j \in posts : existing # "" => puts # { }
      /\ existing = "" => puts = { }
      /\ Done(q) =>
           /\ \A i \in puts : c[i].outcome # "ok" =>
                posts # { } /\ resp[q].status = "success"
           /\ ( /\ Len(c) >= 2
                /\ existing = ""
                /\ AppointmentPrecheck(loc[q].payload, loc[q].contactId, env) = "fetch" )
              => Cardinality(posts) = 1

\* an update that failed on the network was followed by a create that
\* succeeded
C8_Witness ==
  \E q \in Procs :
    /\ Done(q)
    /\ req[q].kind = "main"
    /\ Len(calls[q]) >= 4
    /\ calls[q][3].op = "PUT appointment"
    /\ calls[q][3].outcome = "network"
    /\ calls[q][4].op = "POST appointment"
    /\ calls[q][4].outcome = "ok"
    /\ resp[q].appointmentId = calls[q][4].id

\* C9: every contact PUT of a main-webhook request comes right after a
\* contact fetch that succeeded, which comes right after an appointment
\* update or create that succeeded; the booking id is not in the booking-id
\* list that was fetched; the PUT carries the fetched lists with the booking
\* id and the appointment id added at the end; and a request whose create
\* failed issues no contact PUT.
C9_WriteAfterSuccess ==
  \A q \in Procs :
    req[q].kind = "main" =>
      LET c == calls[q] IN
      /\ \A i \in CallsOf(q, "PUT contact") :
           /\ i >= 3
           /\ c[i - 1].op = "GET contact"
           /\ c[i - 1].outcome = "ok"
           /\ c[i - 2].op \in { "PUT appointment", "POST appointment" }
           /\ c[i - 2].outcome = "ok"
           /\ IndexOf(parseCommaSeparatedIds(c[i - 1].bookingIds),
                      loc[q].nubimedBookingId) = 0
           /\ c[i].bookingIds =
                AppendId(c[i - 1].bookingIds, loc[q].nubimedBookingId)
           /\ c[i].appointmentIds =
                AppendId(c[i - 1].appointmentIds, loc[q].appointmentId)
           /\ ( Done(q) /\ c[i].outcome = "ok" ) =>
                fields = [ appointment_ids |-> c[i].appointmentIds,
                           booking_ids |-> c[i].bookingIds ]
      /\ ( \E j \in CallsOf(q, "POST appointment") : c[j].outcome # "ok" )
           => CallsOf(q, "PUT contact") = { }

\* a pair was appended, after a create that succeeded, to a table that held
\* another pair already
C9_Witness ==
  \E q \in Procs :
    /\ Done(q)
    /\ req[q].kind = "main"
    /\ \E i \in CallsOf(q, "PUT contact") :
         /\ calls[q][i].outcome = "ok"
         /\ calls[q][i - 1].bookingIds # ""
         /\ calls[q][i - 2].op = "POST appointment"
         /\ Len(TableBookingIds) = 2
         /\ TableBookingIds[2] = loc[q].nubimedBookingId
         /\ TableAppointmentIds[2] = loc[q].appointmentId

\* the booking id a deletion request carries, in the order of lines 294-298
RequestBookingId(p) ==
  OrS(p.top.deleted_booking_id,
      OrS(p.top.booking_id,
          OrS(p.data.deleted_booking_id, p.data.booking_id)))

\* C10: a deletion request is answered 400 exactly when the request carries
\* no object, no contact_id, or no booking id in deleted_booking_id /
\* booking_id; a request answered 400 made no remote call, and every other
\* request is answered 200 with status success, ignored or error.
C10_BadRequestExactly ==
  \A q \in Procs :
    ( Done(q) /\ req[q].kind = "deleted" ) =>
      /\ resp[q].code = 400 <=>
           \/ req[q].valueT # "object"
           \/ req[q].p.top.contact_id = ""
           \/ RequestBookingId(req[q].p) = ""
      /\ resp[q].code = 400 => calls[q] = << >>
      /\ resp[q].code # 400 =>
           /\ resp[q].code = 200
           /\ resp[q].status \in { "success", "ignored", "error" }

\* a main-webhook request that passed the normalisation
Normalized(q) ==
  /\ req[q].kind = "main"
  /\ pc[q] # "idle"
  /\ MainNormalize(req[q]).code = 0

\* the tokens of the denylist of non-booking callback kinds
DenylistTokens ==
  { "cita_completada", "cita_eliminada", "booking_completed", "booking_deleted",
    "nueva_factura", "new_invoice", "tratamiento_completado",
    "treatment_completed", "paciente_creado_actualizado",
    "patient_created_updated", "new_or_updated_patient",
    "presupuesto_creado_actualizado", "budget_created_updated" }

\* the resolved event name is a string that holds a token of the denylist,
\* whatever the case of its letters
Denylisted(p) ==
  /\ FilterEventName(p).t = "string"
  /\ \E token \in DenylistTokens : Includes(ToLower(FilterEventName(p).v), token)

\* C11: for every payload whose resolved event name holds, in any letter
\* case, a token of the denylist, shouldProcessWebhook returns false whatever
\* the status, the start time and the booking data are, and the handler
\* answers 200 "ignored" without a remote call.
C11_DenylistRejects ==
  \A q \in Procs :
    ( Normalized(q) /\ Denylisted(loc[q].payload) ) =>
      /\ ~ FilterThrows(loc[q].payload)
      /\ ~ shouldProcessWebhook(loc[q].payload)
      /\ Done(q)
      /\ resp[q].code = 200
      /\ resp[q].status = "ignored"
      /\ calls[q] = << >>

\* a deletion notice written in mixed case, with status code 5, a start time
\* and a booking id, was ignored
C11_Witness ==
  \E q \in Procs :
    /\ Normalized(q)
    /\ loc[q].payload.top.name = Str("Cita_Eliminada")
    /\ loc[q].payload.booking.status = Num("5")
    /\ loc[q].payload.booking.start_at = ValidDate
    /\ loc[q].payload.booking.id = "b1"
    /\ resp[q].status = "ignored"

\* the start time the status rules look at
StartTime(p) == OrS(BookingOf(p).start_at, DataOf(p).start_at)

\* the resolved event name is a string that one of the rules evaluated
\* before the status rules can decide on: a denylist token, a patient event,
\* or one of the name patterns that accept
NameRuleApplies(p) ==
  /\ FilterEventName(p).t = "string"
  /\ \/ Denylisted(p)
     \/ \E w \in { "patient", "new_booking", "new_or_updated", "created" } :
          Includes(ToLower(FilterEventName(p).v), w)

FormWithJsonData(q) ==
  /\ req[q].kind = "main"
  /\ pc[q] # "idle"
  /\ req[q].ct = "form"
  /\ req[q].formJson
  /\ req[q].p.dataT = "object"

\* C13: for every form-encoded body whose data field is a string holding
\* JSON, the envelope handed on has the parsed object as its data, and as its
\* name the top-level name field when that field is present (also when it is
\* the empty string) and otherwise the name field of the parsed object.
C13_FormEnvelopeName ==
  \A q \in Procs :
    FormWithJsonData(q) =>
      LET sent == req[q].p
          envelope == loc[q].payload
      IN
      /\ envelope.dataT = "object"
      /\ envelope.data = sent.data
      /\ envelope.booking = sent.booking
      /\ envelope.patients = sent.patients
      /\ envelope.top.name =
           IF sent.top.name.t # "undefined" THEN sent.top.name ELSE sent.data.name

\* the request of q sent as a JSON body instead
AsJson(r) == [ r EXCEPT !.ct = "json", !.formJson = FALSE ]

\* C14: for every envelope {name, data} with name a string and data an
\* object, the request
\* that sends it form-encoded (data as JSON text) is normalised to the same
\* envelope as the request that sends it as a JSON body, gets the same
\* classifier decision, the same decision on the contact sync and the same
\* decision on the calendar sub-flow, hence the same remote calls and response.
C14_FormEqualsJson ==
  \A q \in Procs :
    ( /\ FormWithJsonData(q)
      /\ req[q].p.top.name.t = "string"
      /\ req[q].p.top = [ NoObj EXCEPT !.name = req[q].p.top.name ] ) =>
      LET json == MainNormalize(AsJson(req[q])).payload
          form == loc[q].payload
      IN
      /\ form = json
      /\ FilterThrows(form) = FilterThrows(json)
      /\ shouldProcessWebhook(form) = shouldProcessWebhook(json)
      /\ SyncToGHLPrecheck(form, env) = SyncToGHLPrecheck(json, env)
      /\ CalendarGate(form, ContactId) = CalendarGate(json, ContactId)

\* C15: a main-webhook request with a JSON content type whose body reaches
\* the handler as a buffer or a string that does not parse is answered 400
\* with status "error" and message "Invalid JSON format", and no remote call
\* is made.
C15_InvalidJson ==
  \A q \in Procs :
    ( /\ req[q].kind = "main"
      /\ pc[q] # "idle"
      /\ req[q].ct = "json"
      /\ req[q].bodyT \in { "buffer", "string" }
      /\ ~ req[q].textOk ) =>
      /\ Done(q)
      /\ resp[q].code = 400
      /\ resp[q].status = "error"
      /\ resp[q].message = "Invalid JSON format"
      /\ resp[q].contactId = ""
      /\ calls[q] = << >>

\* a body that arrived as a string and does not parse was answered 400
C15_Witness ==
  \E q \in Procs :
    /\ req[q].kind = "main"
    /\ Done(q)
    /\ req[q].ct = "json"
    /\ req[q].bodyT = "string"
    /\ ~ req[q].textOk
    /\ resp[q].code = 400
    /\ resp[q].message = "Invalid JSON format"

\* C16: for every main-webhook request that passes the normalisation, the
\* data field of the envelope handed to the classifier and to the contact
\* sync is not a raw string: it is an object (or the envelope has no data
\* field and the payload itself is read).
C16_DataIsObject ==
  \A q \in Procs :
    Normalized(q) => loc[q].payload.dataT \in { "object", "undefined" }

\* the position of the contact PUT among the calls of q
WriteIndex(q) == CHOOSE i \in CallsOf(q, "PUT contact") : TRUE

\* q has written the correlation fields and the CRM accepted the write
Wrote(q) ==
  /\ Done(q)
  /\ CallsOf(q, "PUT contact") # { }
  /\ calls[q][WriteIndex(q)].outcome = "ok"

\* the booking-id list q read before its write
ReadBefore(q) == calls[q][WriteIndex(q) - 1].bookingIds

\* C17: when two main-webhook requests for the same contact and different new
\* booking ids are handled concurrently, both have created their appointment
\* and both have written the correlation fields after reading the same
\* lists, the table holds the lists that were read plus one pair only: one of
\* the two booking ids is missing although both appointments exist.
C17_LostUpdate ==
  \A q1, q2 \in Procs :
    ( /\ q1 # q2
      /\ Wrote(q1)
      /\ Wrote(q2)
      /\ ReadBefore(q1) = ReadBefore(q2) ) =>
      /\ loc[q1].nubimedBookingId # loc[q2].nubimedBookingId
      /\ { loc[q1].appointmentId, loc[q2].appointmentId } \subseteq events
      /\ loc[q1].appointmentId # loc[q2].appointmentId
      /\ Len(TableBookingIds) = Len(parseCommaSeparatedIds(ReadBefore(q1))) + 1
      /\ \/ IndexOf(TableBookingIds, loc[q1].nubimedBookingId) = 0
         \/ IndexOf(TableBookingIds, loc[q2].nubimedBookingId) = 0

\* both requests ended with "success", both appointments exist, both writes
\* were accepted, and the table holds one pair
C17_Witness ==
  \E q1, q2 \in Procs :
    /\ q1 # q2
    /\ Wrote(q1)
    /\ Wrote(q2)
    /\ resp[q1].status = "success"
    /\ resp[q2].status = "success"
    /\ { loc[q1].appointmentId, loc[q2].appointmentId } \subseteq events
    /\ loc[q1].appointmentId # loc[q2].appointmentId
    /\ TableBookingIds = << loc[q2].nubimedBookingId >>
    /\ TableAppointmentIds = << loc[q2].appointmentId >>
    /\ LookupAppointmentId(loc[q1].nubimedBookingId) = ""

\* C18: a main-webhook request whose envelope carries a contact id, and that
\* passed the classifier, issues no contact upsert: contact sync verifies the
\* contact and returns its id.
C18_KnownContactBypass ==
  \A q \in Procs :
    ( /\ Normalized(q)
      /\ loc[q].payload.top.contact_id # "" ) =>
      /\ pc[q] # "upsert"
      /\ CallsOf(q, "POST upsert") = { }

\* the remote calls that change the CRM
WritingCalls ==
  { "POST upsert", "PUT appointment", "POST appointment", "DELETE event",
    "PUT contact" }

\* the call was answered with a failure (a 404 answer to a DELETE is not one)
Failed(c) ==
  /\ c.outcome # "ok"
  /\ ~ (c.op = "DELETE event" /\ c.outcome = "not_found")

\* C19: within one request each of the contact upsert, the appointment PUT,
\* the appointment POST, the event DELETE and the contact PUT is issued at
\* most once; after a failed appointment PUT the one call that follows is the
\* appointment POST; after a failure of any other of these calls the request
\* issues no further call; and a contact fetch that failed is not fetched
\* again in its place.
C19_NoRetry ==
  \A q \in Procs :
    LET c == calls[q] IN
    /\ \A op \in WritingCalls : Cardinality(CallsOf(q, op)) <= 1
    /\ \A i \in 1..Len(c) :
         Failed(c[i]) =>
           /\ c[i].op = "PUT appointment" =>
                /\ i < Len(c) => c[i + 1].op = "POST appointment"
                /\ Done(q) => i < Len(c)
           /\ c[i].op \in WritingCalls \ { "PUT appointment" } => Len(c) = i
           /\ ( c[i].op = "GET contact" /\ i < Len(c) ) =>
                c[i + 1].op = "POST appointment"

\* a deletion whose DELETE was answered with a server error ended with status
\* "error" after that one DELETE
C19_Witness ==
  \E q \in Procs :
    /\ Done(q)
    /\ req[q].kind = "deleted"
    /\ Len(calls[q]) = 2
    /\ calls[q][2].op = "DELETE event"
    /\ calls[q][2].outcome = "http_error"
    /\ resp[q].code = 200
    /\ resp[q].status = "error"

\* none of the places syncToGHL reads the appointment date from holds a valid
\* date
NoValidDate(p) ==
  \A d \in { BookingOf(p).start_at, DataOf(p).start_at, BookingOf(p).date,
             p.top.date, DataOf(p).date } : d \notin ValidDates

\* the request reached syncToGHL with its configuration present
ReachedSync(q) ==
  /\ Normalized(q)
  /\ env.token
  /\ env.location
  /\ ~ FilterThrows(loc[q].payload)
  /\ shouldProcessWebhook(loc[q].payload)

\* the request ended in the outer catch before any remote call
FailedBeforeUpsert(q) ==
  /\ Done(q)
  /\ resp[q].code = 200
  /\ resp[q].status = "error"
  /\ calls[q] = << >>

\* C20: syncToGHL throws "Phone or email is required to sync contact" when
\* the extracted phone and email are both absent, and "Appointment date is
\* required" when a phone or an email is there and no appointment date is a
\* valid date; in both cases the request ends with no contact upsert sent.
\* With a phone or an email and a valid first appointment date the upsert is
\* sent.
C20_SyncPreconditions ==
  \A q \in Procs :
    ReachedSync(q) =>
      LET p == loc[q].payload
          d == extractPatientData(p)
          noContactInfo == d.phone = "" /\ d.email = ""
      IN
      /\ noContactInfo =>
           /\ SyncToGHLPrecheck(p, env) = "Phone or email is required to sync contact"
           /\ FailedBeforeUpsert(q)
      /\ ( ~ noContactInfo /\ NoValidDate(p) ) =>
           /\ SyncToGHLPrecheck(p, env) = "Appointment date is required"
           /\ FailedBeforeUpsert(q)
      /\ ( ~ noContactInfo /\ d.appointmentDate # "" ) =>
           \/ pc[q] = "upsert"
           \/ CallsOf(q, "POST upsert") # { }

\* a request with an email, a phone without a digit and a start time that is
\* not a date ended with status "error" and no remote call
C20_Witness ==
  \E q \in Procs :
    /\ ReachedSync(q)
    /\ SelectedPatient(loc[q].payload).phone = "n/a"
    /\ SelectedPatient(loc[q].payload).email # ""
    /\ loc[q].payload.booking.start_at = BadDate
    /\ FailedBeforeUpsert(q)

\* getExistingAppointmentId is awaited by the request
InLookup(q) == pc[q] \in { "lookup", "del_lookup" }

\* the contact fetch of the lookup that just returned
LookupCall(q) == calls'[q][Len(calls'[q])]

\* the cases in which getExistingAppointmentId finds no appointment id: the
\* fetch failed, a correlation field is empty, the booking id is not listed,
\* or the appointment-id list is shorter than the booking's index
LookupAbsent(q) ==
  LET bookingIndex == IndexOf(TableBookingIds, loc[q].nubimedBookingId) IN
  \/ LookupCall(q).outcome # "ok"
  \/ fields.appointment_ids = ""
  \/ fields.booking_ids = ""
  \/ bookingIndex = 0
  \/ bookingIndex > Len(TableAppointmentIds)

\* C21: whenever getExistingAppointmentId returns in one of its absence cases
\* (failed or non-2xx contact fetch, an empty correlation field, a booking id
\* that is not listed or has no appointment id at its index) it returns "no
\* existing appointment" and raises nothing: the deletion request is answered
\* 200 "ignored", and the main request goes on to create the appointment
\* (or stops at a precondition of createOrUpdateAppointment, never at an
\* error of the lookup).
C21_LookupNeverRaises ==
  [][ \A q \in Procs :
        ( InLookup(q) /\ pc'[q] # pc[q] /\ LookupAbsent(q) )
        => /\ LookupCall(q).op = "GET contact"
           /\ loc'[q].existingAppointmentId = ""
           /\ req[q].kind = "deleted" =>
                /\ resp'[q].code = 200
                /\ resp'[q].status = "ignored"
           /\ req[q].kind = "main" =>
                \/ pc'[q] = "appt_post"
                \/ /\ loc'[q].calendarError =
                        AppointmentPrecheck(loc[q].payload, CalendarContactId(q), env)
                   /\ loc'[q].calendarError # "fetch"
                   /\ resp'[q].status = "success" ]_vars

\* the contact fetch of a deletion's lookup failed while the table holds the
\* booking, and the request was answered "ignored"
C21_Witness ==
  \E q \in Procs :
    /\ Done(q)
    /\ req[q].kind = "deleted"
    /\ Len(calls[q]) = 1
    /\ calls[q][1].op = "GET contact"
    /\ calls[q][1].outcome \in { "http_error", "network" }
    /\ IndexOf(TableBookingIds, loc[q].nubimedBookingId) >= 1
    /\ resp[q].status = "ignored"

\* the flat top-level patient fields of a payload, as a patient source
FlatPatient(p) ==
  [ t |-> IF p.top.phone # "" \/ p.top.email # "" THEN "object" ELSE "undefined",
    phone |-> p.top.phone, email |-> p.top.email,
    name |-> IF Truthy(p.top.name) THEN p.top.name.v ELSE "", surname |-> "" ]

\* the first non-empty patient source in the order booking.patients[0],
\* data.patients[0], booking.patient, flat top-level fields
FirstPatientSource(p) ==
  IF Len(BookingPatients(p)) > 0 THEN BookingPatients(p)[1]
  ELSE IF Len(DataPatients(p)) > 0 THEN DataPatients(p)[1]
  ELSE IF BookingPatient(p).t = "object" THEN BookingPatient(p)
  ELSE FlatPatient(p)

\* C22: for every request that reaches the contact sync, the phone, the
\* email and the names extractPatientData returns all come from one patient
\* source, the first non-empty one in the order booking.patients[0],
\* data.patients[0], booking.patient, flat top-level fields.
C22_OnePatientSource ==
  \A q \in Procs :
    ReachedSync(q) =>
      LET p == loc[q].payload
          d == extractPatientData(p)
          s == FirstPatientSource(p)
      IN
      /\ d.phone = formatPhone(s.phone)
      /\ d.email = s.email
      /\ d.firstName = s.name
      /\ d.lastName = s.surname

\* the value extractPatientData passes to formatPhone
PhoneInput(p) ==
  OrS(SelectedPatient(p).phone,
      OrS(p.top.phone, OrS(BookingOf(p).phone, DataOf(p).phone)))

IsDigit(c) == \E i \in 1..10 : Char(Digits, i) = c

\* the digits of a string, in order
RECURSIVE DigitsOf(_)
DigitsOf(s) ==
  IF Len(s) = 0 THEN ""
  ELSE IF IsDigit(Char(s, 1)) THEN Char(s, 1) \o DigitsOf(SubSeq(s, 2, Len(s)))
  ELSE DigitsOf(SubSeq(s, 2, Len(s)))

\* C23: for every phone that holds a digit, formatPhone returns '+' followed
\* by the digits of the input in order: every other character is removed,
\* and the result holds a '+' as its first character and nowhere else.
C23_FormatPhone ==
  \A q \in Procs :
    ( ReachedSync(q) /\ DigitsOf(PhoneInput(loc[q].payload)) # "" ) =>
      LET phone == PhoneInput(loc[q].payload)
          result == extractPatientData(loc[q].payload).phone
      IN
      /\ result = "+" \o DigitsOf(phone)
      /\ \A i \in 2..Len(result) : Char(result, i) # "+"

\* the resolved event name is a string that holds "new_booking", whatever
\* the case of its letters
NewBookingEvent(p) ==
  /\ FilterEventName(p).t = "string"
  /\ Includes(ToLower(FilterEventName(p).v), "new_booking")

\* the patient-only rule rejects the payload
PatientOnlyRejected(p) ==
  /\ FilterEventName(p).t = "string"
  /\ Includes(ToLower(FilterEventName(p).v), "patient")
  /\ ~ Includes(ToLower(FilterEventName(p).v), "booking")
  /\ ~ FilterHasBookingData(p)

\* C24: for every payload whose resolved event name holds "new_booking" and
\* that neither the denylist nor the patient-only rule rejects,
\* shouldProcessWebhook returns true whatever the status, the start time and
\* the booking id are, and the handler goes on to the contact sync.
C24_NewBookingAccepted ==
  \A q \in Procs :
    ( /\ Normalized(q)
      /\ NewBookingEvent(loc[q].payload)
      /\ ~ Denylisted(loc[q].payload)
      /\ ~ PatientOnlyRejected(loc[q].payload) ) =>
      /\ ~ FilterThrows(loc[q].payload)
      /\ shouldProcessWebhook(loc[q].payload)
      /\ resp[q].status # "ignored"
      /\ ( env.token /\ env.location
           /\ SyncToGHLPrecheck(loc[q].payload, env) = "fetch" ) => pc[q] = "upsert"

\* a creation event with the completion status "Completed", no start time
\* and no booking id passed the filter
C24_Witness ==
  \E q \in Procs :
    /\ Normalized(q)
    /\ loc[q].payload.top.name = Str("Nubimed.NEW_BOOKING")
    /\ FilterStatus(loc[q].payload) = Str("Completed")
    /\ StartTime(loc[q].payload) = ""
    /\ loc[q].payload.booking.id = ""
    /\ Done(q)
    /\ resp[q].status = "error"

\* C25: for every payload that passed the normalisation, shouldProcessWebhook
\* returns true or false without throwing, also for a name that is not a
\* string and for a data field that is a raw string: the handler answers
\* "ignored" when it returns false and goes on to the contact sync when it
\* returns true.
C25_FilterTotal ==
  \A q \in Procs :
    Normalized(q) =>
      /\ ~ FilterThrows(loc[q].payload)
      /\ shouldProcessWebhook(loc[q].payload) \in BOOLEAN
      /\ ~ shouldProcessWebhook(loc[q].payload) =>
           Done(q) /\ resp[q].status = "ignored"
      /\ ( shouldProcessWebhook(loc[q].payload) /\ Done(q)
           /\ SyncToGHLPrecheck(loc[q].payload, env) = "fetch" ) =>
           resp[q].status # "error"

\* C26: after any sequence of syncs and deletions for a contact whose table
\* started without duplicates, no booking id occurs twice in the booking-id
\* list read from the contact.
C26_NoDuplicateBooking ==
  \A i, j \in 1..Len(TableBookingIds) :
    TableBookingIds[i] = TableBookingIds[j] => i = j

\* the calendar event the request created with its appointment POST
CreatedBy(q) ==
  IF \E i \in 1..Len(calls[q]) :
       calls[q][i].op = "POST appointment" /\ calls[q][i].outcome = "ok"
  THEN loc[q].appointmentId ELSE ""

\* the events the table has recorded for a booking id and that still exist
RecordedFor(bookingId) ==
  { pairs[i][2] : i \in { j \in 1..Len(pairs) : pairs[j][1] = bookingId } } \cap events

\* C27: with requests handled one at a time and remote calls free to fail,
\* at most one calendar event created for a booking exists: an event a sync
\* creates for a booking is the only existing event recorded or created for
\* that booking, and after a deletion answered "success" no event recorded
\* for the booking exists.
C27_OneAppointmentPerBooking ==
  \A q \in Procs :
    /\ ( req[q].kind = "main" /\ CreatedBy(q) \in events ) =>
         RecordedFor(loc[q].nubimedBookingId) \subseteq { CreatedBy(q) }
    /\ ( req[q].kind = "deleted" /\ Done(q) /\ resp[q].status = "success" ) =>
         RecordedFor(loc[q].nubimedBookingId) = { }

\* C28: provided every remote call returns or fails in the end, every
\* request to either endpoint is answered: a request that is being handled
\* leads to the end of its handler, a response has been sent exactly when the
\* handler has ended, and a response that was sent is never followed by a
\* second one.
C28_OneResponse ==
  /\ [] ( \A q \in Procs : resp[q].code # 0 <=> Done(q) )
  /\ [][ \A q \in Procs :
           resp[q].code # 0 => ( resp'[q] = resp[q] \/ pc'[q] = "idle" ) ]_vars
  /\ \A q \in Procs : ( pc[q] # "idle" ) ~> Done(q)

\* a deletion was answered "success" after its four remote calls, the last
\* of which failed
C28_Witness ==
  \E q \in Procs :
    /\ Done(q)
    /\ req[q].kind = "deleted"
    /\ Len(calls[q]) = 4
    /\ calls[q][4].op = "PUT contact"
    /\ calls[q][4].outcome = "network"
    /\ resp[q].code = 200
    /\ resp[q].status = "success"

\* the DELETE of the deletion request was answered with a failure other
\* than 404
DeleteFailed(q) ==
  /\ req[q].kind = "deleted"
  /\ \E i \in CallsOf(q, "DELETE event") : Failed(calls[q][i])

\* C29: when the DELETE of a deletion request is answered with a non-2xx
\* status other than 404 or fails on the network, the request ends there with
\* HTTP 200 and status "error": no contact PUT is issued and the two
\* correlation fields still hold what the lookup read.
C29_DeleteFailureKeepsTable ==
  \A q \in Procs :
    DeleteFailed(q) =>
      /\ Done(q)
      /\ resp[q].code = 200
      /\ resp[q].status = "error"
      /\ Len(calls[q]) = 2
      /\ calls[q][2].op = "DELETE event"
      /\ CallsOf(q, "PUT contact") = { }
      /\ fields.booking_ids = calls[q][1].bookingIds
      /\ fields.appointment_ids = calls[q][1].appointmentIds
      /\ loc[q].existingAppointmentId \in events =>
           LookupAppointmentId(loc[q].nubimedBookingId) = loc[q].existingAppointmentId

\* the DELETE was answered with a non-2xx status; the booking and its
\* appointment are still in the table and the event still exists
C29_Witness ==
  \E q \in Procs :
    /\ DeleteFailed(q)
    /\ calls[q][2].outcome = "http_error"
    /\ resp[q].status = "error"
    /\ IndexOf(TableBookingIds, loc[q].nubimedBookingId) >= 1
    /\ loc[q].existingAppointmentId \in events

\* the same deletion request sent as a JSON body
DeletedAsJson(r) == [ r EXCEPT !.ct = "json", !.formJson = FALSE ]

\* a form-encoded deletion request that carries contact_id and a booking id
\* as form fields
DeletedFormWithIds(q) ==
  /\ req[q].kind = "deleted"
  /\ req[q].ct = "form"
  /\ pc[q] # "idle"
  /\ req[q].p.top.contact_id # ""
  /\ req[q].p.top.booking_id # "" \/ req[q].p.top.deleted_booking_id # ""

\* C30: a form-encoded deletion request with contact_id and booking_id (or
\* deleted_booking_id) as form fields resolves the contact id and the booking
\* id that the same fields resolve to in a JSON body, and like the JSON
\* request it is not answered 400.
C30_DeletedFormEqualsJson ==
  \A q \in Procs :
    DeletedFormWithIds(q) =>
      LET json == DeletedNormalize(DeletedAsJson(req[q])) IN
      /\ loc[q].contactId = json.top.contact_id
      /\ loc[q].nubimedBookingId = DeletedBookingId(json)
      /\ resp[q].code # 400

====
